---- MODULE Spec2Model ----
(***************************************************************************)
(* Affiliate commission lifecycle of the VBMS backend.                     *)
(*                                                                         *)
(* models/Affiliate.js: the Affiliate document with its embedded referrals *)
(* and commissions, the instance methods addReferral, recordConversion,    *)
(* approveCommission and payCommission, and the pre('save') hook.          *)
(* routes/affiliates (src/unnamed/part_000, second file): the approve and  *)
(* pay endpoints that load the document, call the method and answer.       *)
(*                                                                         *)
(* Numbers.  Money is kept in integer minor units and commissionRate in    *)
(* whole percent (0.15 is 15), so orderAmount * commissionRate is          *)
(* (amount * rate) \div 100; order amounts are multiples of 100, which     *)
(* makes the product exact.  IEEE-754 rounding of the JavaScript doubles   *)
(* is not modelled.  stats.conversionRate is a fraction in lowest terms.   *)
(*                                                                         *)
(* Dates.  The dates the claims do not speak of (a referral's signupDate   *)
(* and firstPurchaseDate, a commission's createdAt) are left out.          *)
(*                                                                         *)
(* Identifiers.  A subdocument's _id is its position in the array: the     *)
(* lifecycle methods only push, so positions are stable.                   *)
(***************************************************************************)
EXTENDS Integers, Sequences, FiniteSets, TLC

VARIABLES
    db,     \* the affiliates collection: stored _id -> document
    now,    \* the clock read by new Date()
    resp,   \* the response of the last endpoint call
    last,   \* the last call: operation and the subdocument id it looked up
            \* (0 when it looked none up)
    reqs,   \* in-flight approve / pay requests (interleaved execution)
    users,          \* the users collection, in insertion order (_id = position)
    notifications,  \* the notifications collection (_id = position)
    files,          \* the files collection (File records, newest last)
    settings,       \* the settings collection: userId -> Settings document
    storage         \* the keys of the objects the storage service holds

vars == <<db, now, resp, last, reqs, users, notifications, files, settings, storage>>

\* the collections the affiliate lifecycle never touches
otherCollections == <<users, notifications, files, settings, storage>>
\* the state of the affiliate lifecycle
affiliateVars == <<db, reqs>>

----------------------------------------------------------------------------
(* Bounds of the model *)

MaxCommissions == 2
MaxTime == 2
\* the largest number of documents a list query matches
MaxItems == 5

(* Input domains *)

\* ids a request may name: 1 is stored, 2 is a well-formed id of no document
AffIds == {1, 2}
\* an id that does not cast to an ObjectId
BadId == 0
\* commission rates in percent
Rates == {15, 100}
\* order amounts in minor units
Amounts == {-100, 200}
Admins == {"admin1"}
PayMethods == {"paypal"}
PayRefs == {"ref1"}
\* the customers that sign up through a referral, each once
Customers == {"cust1"}
ReqIds == {1, 2}

\* the schema's default commissionRate, in percent
DefaultRate == 15

(* Unset values *)

NoDate == 0
NoUser == "none"
NoText == "none"

----------------------------------------------------------------------------
(* Arithmetic *)

RECURSIVE GCD(_, _)
GCD(a, b) == IF b = 0 THEN a ELSE GCD(b, a % b)

\* the number n / d as a fraction in lowest terms (n >= 0, d > 0)
Frac(n, d) == LET g == GCD(n, d) IN [num |-> n \div g, den |-> d \div g]

\* amount * rate, the rate being in percent
Times(amount, rate) == (amount * rate) \div 100

----------------------------------------------------------------------------
(* The Affiliate schema *)

\* stats sub-document with the schema defaults
DefaultStats ==
    [ totalReferrals |-> 0,
      successfulReferrals |-> 0,
      totalCommissionEarned |-> 0,
      totalCommissionPaid |-> 0,
      pendingCommission |-> 0,
      conversionRate |-> Frac(0, 1) ]

\* a stored affiliate: the fields POST / sets, the schema defaults of the
\* lifecycle fields, and generated identifiers
NewAffiliate(rate, t) ==
    [ name |-> "Acme",
      email |-> "acme@example.com",
      affiliateId |-> "AFF1",
      referralCode |-> "ACME1",
      status |-> "active",
      tier |-> "bronze",
      commissionRate |-> rate,
      stats |-> DefaultStats,
      referrals |-> << >>,
      commissions |-> << >>,
      lastActivityAt |-> t ]

\* variant: the ratio itself, not multiplied by 100
calculatedConversionRate_Ratio(doc) ==
    IF doc.stats.totalReferrals = 0
    THEN Frac(0, 1)
    ELSE Frac(doc.stats.successfulReferrals, doc.stats.totalReferrals)

\* virtual calculatedConversionRate
calculatedConversionRate(doc) ==
    IF doc.stats.totalReferrals = 0
    THEN Frac(0, 1)
    ELSE Frac(doc.stats.successfulReferrals * 100, doc.stats.totalReferrals)

\* virtual pendingPayout
pendingPayout(doc) ==
    doc.stats.totalCommissionEarned - doc.stats.totalCommissionPaid

\* MongooseDocumentArray.id(): the subdocument with that _id, if any
HasId(arr, id) == id \in 1..Len(arr)

----------------------------------------------------------------------------
(* Instance methods: the in-memory mutation each makes before this.save() *)

addReferral(doc, customerId, t) ==
    [ doc EXCEPT
        !.referrals = Append(@, [ customerId |-> customerId,
                                  totalSpent |-> 0,
                                  commissionEarned |-> 0,
                                  status |-> "signup" ]),
        !.stats.totalReferrals = @ + 1 ]

\* variant: the commission is computed at the schema's default rate, not at
\* the affiliate's own
recordConversion_DefaultRate(doc, referralId, amount, t) ==
    IF HasId(doc.referrals, referralId)
    THEN LET commissionAmount == Times(amount, DefaultRate)
             d1 == [ doc EXCEPT
                       !.referrals[referralId].status = "converted",
                       !.referrals[referralId].totalSpent = amount,
                       !.referrals[referralId].commissionEarned = commissionAmount,
                       !.commissions = Append(@,
                           [ customerId |-> doc.referrals[referralId].customerId,
                             orderAmount |-> amount,
                             commissionAmount |-> commissionAmount,
                             commissionRate |-> doc.commissionRate,
                             status |-> "pending",
                             approvedBy |-> NoUser,
                             approvedAt |-> NoDate,
                             paidAt |-> NoDate,
                             paymentMethod |-> NoText,
                             paymentReference |-> NoText ]),
                       !.stats.successfulReferrals = @ + 1,
                       !.stats.totalCommissionEarned = @ + commissionAmount,
                       !.stats.pendingCommission = @ + commissionAmount ]
         IN [ d1 EXCEPT !.stats.conversionRate = calculatedConversionRate(d1) ]
    ELSE doc

recordConversion(doc, referralId, amount, t) ==
    IF HasId(doc.referrals, referralId)
    THEN LET commissionAmount == Times(amount, doc.commissionRate)
             d1 == [ doc EXCEPT
                       !.referrals[referralId].status = "converted",
                       !.referrals[referralId].totalSpent = amount,
                       !.referrals[referralId].commissionEarned = commissionAmount,
                       !.commissions = Append(@,
                           [ customerId |-> doc.referrals[referralId].customerId,
                             orderAmount |-> amount,
                             commissionAmount |-> commissionAmount,
                             commissionRate |-> doc.commissionRate,
                             status |-> "pending",
                             approvedBy |-> NoUser,
                             approvedAt |-> NoDate,
                             paidAt |-> NoDate,
                             paymentMethod |-> NoText,
                             paymentReference |-> NoText ]),
                       !.stats.successfulReferrals = @ + 1,
                       !.stats.totalCommissionEarned = @ + commissionAmount,
                       !.stats.pendingCommission = @ + commissionAmount ]
         IN [ d1 EXCEPT !.stats.conversionRate = calculatedConversionRate(d1) ]
    ELSE doc

\* variant: no check of the current status
approveCommission_AnyStatus(doc, commissionId, adminId, t) ==
    IF HasId(doc.commissions, commissionId)
    THEN [ doc EXCEPT
             !.commissions[commissionId].status = "approved",
             !.commissions[commissionId].approvedBy = adminId,
             !.commissions[commissionId].approvedAt = t ]
    ELSE doc

\* variant: the approval takes the amount out of pendingCommission
approveCommission_CountsApproval(doc, commissionId, adminId, t) ==
    IF HasId(doc.commissions, commissionId)
       /\ doc.commissions[commissionId].status = "pending"
    THEN [ doc EXCEPT
             !.commissions[commissionId].status = "approved",
             !.commissions[commissionId].approvedBy = adminId,
             !.commissions[commissionId].approvedAt = t,
             !.stats.pendingCommission =
                 @ - doc.commissions[commissionId].commissionAmount ]
    ELSE doc

approveCommission(doc, commissionId, adminId, t) ==
    IF HasId(doc.commissions, commissionId)
       /\ doc.commissions[commissionId].status = "pending"
    THEN [ doc EXCEPT
             !.commissions[commissionId].status = "approved",
             !.commissions[commissionId].approvedBy = adminId,
             !.commissions[commissionId].approvedAt = t ]
    ELSE doc

\* variant: the order amount, not the commission amount, is counted as paid
payCommission_OrderAmount(doc, commissionId, method, reference, t) ==
    IF HasId(doc.commissions, commissionId)
       /\ doc.commissions[commissionId].status = "approved"
    THEN [ doc EXCEPT
             !.commissions[commissionId].status = "paid",
             !.commissions[commissionId].paidAt = t,
             !.commissions[commissionId].paymentMethod = method,
             !.commissions[commissionId].paymentReference = reference,
             !.stats.totalCommissionPaid =
                 @ + doc.commissions[commissionId].orderAmount,
             !.stats.pendingCommission =
                 @ - doc.commissions[commissionId].commissionAmount ]
    ELSE doc

\* variant: a paid commission is paid again
payCommission_Repays(doc, commissionId, method, reference, t) ==
    IF HasId(doc.commissions, commissionId)
       /\ doc.commissions[commissionId].status \in {"approved", "paid"}
    THEN [ doc EXCEPT
             !.commissions[commissionId].status = "paid",
             !.commissions[commissionId].paidAt = t,
             !.commissions[commissionId].paymentMethod = method,
             !.commissions[commissionId].paymentReference = reference,
             !.stats.totalCommissionPaid =
                 @ + doc.commissions[commissionId].commissionAmount,
             !.stats.pendingCommission =
                 @ - doc.commissions[commissionId].commissionAmount ]
    ELSE doc

\* variant: no check of the current status
payCommission_AnyStatus(doc, commissionId, method, reference, t) ==
    IF HasId(doc.commissions, commissionId)
    THEN [ doc EXCEPT
             !.commissions[commissionId].status = "paid",
             !.commissions[commissionId].paidAt = t,
             !.commissions[commissionId].paymentMethod = method,
             !.commissions[commissionId].paymentReference = reference,
             !.stats.totalCommissionPaid =
                 @ + doc.commissions[commissionId].commissionAmount,
             !.stats.pendingCommission =
                 @ - doc.commissions[commissionId].commissionAmount ]
    ELSE doc

\* variant: pendingCommission is not reduced
payCommission_KeepsPending(doc, commissionId, method, reference, t) ==
    IF HasId(doc.commissions, commissionId)
       /\ doc.commissions[commissionId].status = "approved"
    THEN [ doc EXCEPT
             !.commissions[commissionId].status = "paid",
             !.commissions[commissionId].paidAt = t,
             !.commissions[commissionId].paymentMethod = method,
             !.commissions[commissionId].paymentReference = reference,
             !.stats.totalCommissionPaid =
                 @ + doc.commissions[commissionId].commissionAmount,
             !.stats.pendingCommission =
                 @ ]
    ELSE doc

\* variant: a commission that is not approved is cancelled by the attempt
payCommission_CancelsUnapproved(doc, commissionId, method, reference, t) ==
    IF HasId(doc.commissions, commissionId)
    THEN IF doc.commissions[commissionId].status = "approved"
         THEN [ doc EXCEPT
                  !.commissions[commissionId].status = "paid",
                  !.commissions[commissionId].paidAt = t,
                  !.commissions[commissionId].paymentMethod = method,
                  !.commissions[commissionId].paymentReference = reference,
                  !.stats.totalCommissionPaid =
                      @ + doc.commissions[commissionId].commissionAmount,
                  !.stats.pendingCommission =
                      @ - doc.commissions[commissionId].commissionAmount ]
         ELSE [ doc EXCEPT !.commissions[commissionId].status = "cancelled" ]
    ELSE doc

payCommission(doc, commissionId, method, reference, t) ==
    IF HasId(doc.commissions, commissionId)
       /\ doc.commissions[commissionId].status = "approved"
    THEN [ doc EXCEPT
             !.commissions[commissionId].status = "paid",
             !.commissions[commissionId].paidAt = t,
             !.commissions[commissionId].paymentMethod = method,
             !.commissions[commissionId].paymentReference = reference,
             !.stats.totalCommissionPaid =
                 @ + doc.commissions[commissionId].commissionAmount,
             !.stats.pendingCommission =
                 @ - doc.commissions[commissionId].commissionAmount ]
    ELSE doc

\* pre('save'): affiliateId and referralCode are generated when missing,
\* lastActivityAt is set on every save
preSave(doc, t) ==
    [ doc EXCEPT
        !.affiliateId = IF @ = NoText THEN "AFFGEN" ELSE @,
        !.referralCode = IF @ = NoText THEN "CODEGEN" ELSE @,
        !.lastActivityAt = t ]

----------------------------------------------------------------------------
(* this.save(): the update carries the paths the request modified on its   *)
(* copy (a $set per changed field, a $push per appended subdocument); the  *)
(* other paths keep what is stored.  Approve and pay only $set, and a $set *)
(* does not advance the document version, so their saves never conflict.   *)

MergeRec(s, l, m) == [ f \in DOMAIN m |-> IF m[f] # l[f] THEN m[f] ELSE s[f] ]

MergeArr(S, L, M) ==
    [ i \in 1..(Len(S) + Len(M) - Len(L)) |->
        IF i <= Len(L) THEN MergeRec(S[i], L[i], M[i])
        ELSE IF i <= Len(S) THEN S[i]
        ELSE M[i - Len(S) + Len(L)] ]

\* variant: the counters are sent as increments ($inc) and add up
save_IncrementsCounters(stored, loaded, mutated) ==
    [ name |-> stored.name,
      email |-> stored.email,
      affiliateId |-> IF mutated.affiliateId # loaded.affiliateId
                      THEN mutated.affiliateId ELSE stored.affiliateId,
      referralCode |-> IF mutated.referralCode # loaded.referralCode
                       THEN mutated.referralCode ELSE stored.referralCode,
      status |-> stored.status,
      tier |-> stored.tier,
      commissionRate |-> stored.commissionRate,
      stats |-> [ MergeRec(stored.stats, loaded.stats, mutated.stats) EXCEPT
                    !.totalCommissionPaid =
                        stored.stats.totalCommissionPaid
                        + (mutated.stats.totalCommissionPaid
                           - loaded.stats.totalCommissionPaid),
                    !.pendingCommission =
                        stored.stats.pendingCommission
                        + (mutated.stats.pendingCommission
                           - loaded.stats.pendingCommission) ],
      referrals |-> MergeArr(stored.referrals, loaded.referrals, mutated.referrals),
      commissions |-> MergeArr(stored.commissions, loaded.commissions,
                               mutated.commissions),
      lastActivityAt |-> IF mutated.lastActivityAt # loaded.lastActivityAt
                         THEN mutated.lastActivityAt ELSE stored.lastActivityAt ]

\* stored: the document in the collection; loaded: what the request read;
\* mutated: the request's copy at the time of the save
save(stored, loaded, mutated) ==
    [ name |-> stored.name,
      email |-> stored.email,
      affiliateId |-> IF mutated.affiliateId # loaded.affiliateId
                      THEN mutated.affiliateId ELSE stored.affiliateId,
      referralCode |-> IF mutated.referralCode # loaded.referralCode
                       THEN mutated.referralCode ELSE stored.referralCode,
      status |-> stored.status,
      tier |-> stored.tier,
      commissionRate |-> stored.commissionRate,
      stats |-> MergeRec(stored.stats, loaded.stats, mutated.stats),
      referrals |-> MergeArr(stored.referrals, loaded.referrals, mutated.referrals),
      commissions |-> MergeArr(stored.commissions, loaded.commissions,
                               mutated.commissions),
      lastActivityAt |-> IF mutated.lastActivityAt # loaded.lastActivityAt
                         THEN mutated.lastActivityAt ELSE stored.lastActivityAt ]

----------------------------------------------------------------------------
(* Responses *)

NoResp == [ status |-> 0, success |-> FALSE, message |-> NoText ]
NotFound == [ status |-> 404, success |-> FALSE, message |-> "Affiliate not found" ]
Approved == [ status |-> 200, success |-> TRUE,
              message |-> "Commission approved successfully" ]
Paid == [ status |-> 200, success |-> TRUE,
          message |-> "Commission paid successfully" ]
ApproveError == [ status |-> 500, success |-> FALSE,
                  message |-> "Error approving commission" ]
PayError == [ status |-> 500, success |-> FALSE,
              message |-> "Error processing payment" ]

Exists(a) == a \in DOMAIN db

Call(op, id) == [ op |-> op, id |-> id ]
NoCall == Call("none", 0)

----------------------------------------------------------------------------
(* Sequential execution: every call runs to completion before the next *)

Tick ==
    /\ now < MaxTime
    /\ now' = now + 1
    /\ UNCHANGED <<db, resp, last, reqs, otherCollections>>

CallAddReferral(a, cust) ==
    /\ Exists(a)
    /\ \A i \in 1..Len(db[a].referrals) : db[a].referrals[i].customerId # cust
    /\ last' = Call("addReferral", 0)
    /\ resp' = NoResp
    /\ db' = [ db EXCEPT ![a] =
                 save(@, @, preSave(addReferral(@, cust, now), now)) ]
    /\ UNCHANGED <<now, reqs, otherCollections>>

CallRecordConversion(a, rid, amount) ==
    /\ Exists(a)
    /\ Len(db[a].commissions) < MaxCommissions
    /\ last' = Call("recordConversion", rid)
    /\ resp' = NoResp
    /\ db' = [ db EXCEPT ![a] =
                 save(@, @, preSave(recordConversion(@, rid, amount, now), now)) ]
    /\ UNCHANGED <<now, reqs, otherCollections>>

InvalidTransition == [ status |-> 400, success |-> FALSE,
                       message |-> "Commission is not pending" ]

\* variant: an approval that changes no commission is answered with an error
PostApprove_RejectsNoOp(a, cid, admin) ==
    /\ last' = Call("approve", IF a # BadId /\ Exists(a) THEN cid ELSE 0)
    /\ resp' = IF a = BadId THEN ApproveError
               ELSE IF ~Exists(a) THEN NotFound
               ELSE IF approveCommission(db[a], cid, admin, now) = db[a]
               THEN InvalidTransition
               ELSE Approved
    /\ db' = IF a # BadId /\ Exists(a)
             THEN [ db EXCEPT ![a] =
                      save(@, @, preSave(approveCommission(@, cid, admin, now), now)) ]
             ELSE db
    /\ UNCHANGED <<now, reqs, otherCollections>>

\* POST /:id/commissions/:commissionId/approve
PostApprove(a, cid, admin) ==
    /\ last' = Call("approve", IF a # BadId /\ Exists(a) THEN cid ELSE 0)
    /\ resp' = IF a = BadId THEN ApproveError
               ELSE IF ~Exists(a) THEN NotFound
               ELSE Approved
    /\ db' = IF a # BadId /\ Exists(a)
             THEN [ db EXCEPT ![a] =
                      save(@, @, preSave(approveCommission(@, cid, admin, now), now)) ]
             ELSE db
    /\ UNCHANGED <<now, reqs, otherCollections>>

\* POST /:id/commissions/:commissionId/pay
PostPay(a, cid, method, reference) ==
    /\ last' = Call("pay", IF a # BadId /\ Exists(a) THEN cid ELSE 0)
    /\ resp' = IF a = BadId THEN PayError
               ELSE IF ~Exists(a) THEN NotFound
               ELSE Paid
    /\ db' = IF a # BadId /\ Exists(a)
             THEN [ db EXCEPT ![a] =
                      save(@, @, preSave(payCommission(@, cid, method, reference, now), now)) ]
             ELSE db
    /\ UNCHANGED <<now, reqs, otherCollections>>

CommissionIds == 1..(MaxCommissions + 1)
ReferralIds == 1..(Cardinality(Customers) + 1)
RequestAffIds == AffIds \cup {BadId}

Idle == [ pc |-> "idle" ]

\* the affiliate lifecycle is followed with the other collections empty
NoOtherCollections ==
    /\ users = << >>
    /\ notifications = << >>
    /\ files = << >>
    /\ settings = << >>
    /\ storage = {}

Init ==
    /\ \E rate \in Rates : db = [ a \in {1} |-> NewAffiliate(rate, 1) ]
    /\ now = 1
    /\ resp = NoResp
    /\ last = NoCall
    /\ reqs = [ r \in ReqIds |-> Idle ]
    /\ NoOtherCollections

Next ==
    \/ Tick
    \/ \E a \in AffIds, cust \in Customers : CallAddReferral(a, cust)
    \/ \E a \in AffIds, rid \in ReferralIds, amount \in Amounts :
          CallRecordConversion(a, rid, amount)
    \/ \E a \in RequestAffIds, cid \in CommissionIds, admin \in Admins :
          PostApprove(a, cid, admin)
    \/ \E a \in RequestAffIds, cid \in CommissionIds,
          method \in PayMethods, reference \in PayRefs :
          PostPay(a, cid, method, reference)

Spec == Init /\ [][Next]_vars

----------------------------------------------------------------------------
(* Interleaved execution of the approve and pay endpoints.  A handler      *)
(* awaits Affiliate.findById, and then calls the method, which mutates the *)
(* loaded copy and awaits this.save(): other requests run between the      *)
(* load and the save.                                                      *)

\* an affiliate with one referral converted twice, the commissions named in
\* approved having been approved since: what sequential calls leave stored
Populated(rate, amount1, amount2, approved) ==
    LET d0 == NewAffiliate(rate, 1)
        d1 == save(d0, d0, preSave(addReferral(d0, "cust1", 1), 1))
        d2 == save(d1, d1, preSave(recordConversion(d1, 1, amount1, 1), 1))
        d3 == save(d2, d2, preSave(recordConversion(d2, 1, amount2, 1), 1))
        d4 == IF 1 \in approved
              THEN save(d3, d3, preSave(approveCommission(d3, 1, "admin1", 1), 1))
              ELSE d3
    IN IF 2 \in approved
       THEN save(d4, d4, preSave(approveCommission(d4, 2, "admin1", 1), 1))
       ELSE d4

\* the method a loaded request runs on its copy
Mutated(q) ==
    IF q.kind = "approve"
    THEN approveCommission(q.copy, q.cid, q.admin, now)
    ELSE payCommission(q.copy, q.cid, q.method, q.reference, now)

\* await Affiliate.findById(req.params.id), and the 404 answer
BeginRequest(r, kind, a, cid, admin, method, reference) ==
    /\ reqs[r].pc = "idle"
    /\ reqs' = [ reqs EXCEPT ![r] =
                   IF a = BadId
                   THEN [ pc |-> "done", kind |-> kind, cid |-> 0,
                          resp |-> IF kind = "approve" THEN ApproveError
                                   ELSE PayError ]
                   ELSE IF ~Exists(a)
                   THEN [ pc |-> "done", kind |-> kind, cid |-> 0,
                          resp |-> NotFound ]
                   ELSE [ pc |-> "loaded", kind |-> kind, aff |-> a, cid |-> cid,
                          admin |-> admin, method |-> method,
                          reference |-> reference, copy |-> db[a] ] ]
    /\ UNCHANGED <<db, now, resp, last, otherCollections>>

\* affiliate.approveCommission(...) or affiliate.payCommission(...) on the
\* loaded copy, its save, and the success answer; a request slot carries
\* one request
FinishRequest(r) ==
    /\ reqs[r].pc = "loaded"
    /\ LET q == reqs[r]
       IN /\ db' = [ db EXCEPT ![q.aff] =
                       save(@, q.copy, preSave(Mutated(q), now)) ]
          /\ reqs' = [ reqs EXCEPT ![r] =
                         [ pc |-> "done", kind |-> q.kind, cid |-> q.cid,
                           resp |-> IF q.kind = "approve" THEN Approved
                                    ELSE Paid ] ]
    /\ UNCHANGED <<now, resp, last, otherCollections>>

InitRace ==
    /\ \E rate \in Rates, amount1, amount2 \in Amounts, approved \in SUBSET {1, 2} :
          db = [ a \in {1} |-> Populated(rate, amount1, amount2, approved) ]
    /\ now = 1
    /\ resp = NoResp
    /\ last = NoCall
    /\ reqs = [ r \in ReqIds |-> Idle ]
    /\ NoOtherCollections

NextRace ==
    \/ Tick
    \/ \E r \in ReqIds, kind \in {"approve", "pay"}, a \in RequestAffIds,
          cid \in CommissionIds, admin \in Admins,
          method \in PayMethods, reference \in PayRefs :
          BeginRequest(r, kind, a, cid, admin, method, reference)
    \/ \E r \in ReqIds : FinishRequest(r)

SpecRace == InitRace /\ [][NextRace]_vars

----------------------------------------------------------------------------
(* Properties of the sequential lifecycle (specification Spec) *)

Statuses(doc) == { doc.commissions[i].status : i \in 1..Len(doc.commissions) }

RECURSIVE SumOutstanding(_)
\* the sum of commissionAmount over the pending and the approved commissions
SumOutstanding(cs) ==
    IF cs = << >> THEN 0
    ELSE (IF Head(cs).status \in {"pending", "approved"}
          THEN Head(cs).commissionAmount ELSE 0) + SumOutstanding(Tail(cs))

\* C1: for every affiliate, in every state reached by sequential
\* recordConversion, approveCommission and payCommission calls from a freshly
\* created affiliate, totalCommissionEarned - totalCommissionPaid equals the
\* sum of commissionAmount over its pending and approved commissions.
C1_EarnedMinusPaidIsOutstanding ==
    \A a \in DOMAIN db :
        db[a].stats.totalCommissionEarned - db[a].stats.totalCommissionPaid
            = SumOutstanding(db[a].commissions)

\* a paid commission of non-zero amount next to one still outstanding
C1_Witness ==
    \E a \in DOMAIN db :
        \E i, j \in 1..Len(db[a].commissions) :
            /\ db[a].commissions[i].status = "paid"
            /\ db[a].commissions[i].commissionAmount # 0
            /\ db[a].commissions[j].status \in {"pending", "approved"}
            /\ db[a].commissions[j].commissionAmount # 0

ForwardStep(s, t) ==
    \/ s = t
    \/ s = "pending" /\ t = "approved"
    \/ s = "approved" /\ t = "paid"

\* C2: in every step, a commission keeps its status or moves from pending to
\* approved or from approved to paid; no commission is removed.  So a status
\* never moves backward, never jumps from pending to paid, never leaves paid.
C2_StatusMovesForwardOnly ==
    [][ \A a \in DOMAIN db :
          /\ a \in DOMAIN db'
          /\ Len(db'[a].commissions) >= Len(db[a].commissions)
          /\ \A i \in 1..Len(db[a].commissions) :
                ForwardStep(db[a].commissions[i].status,
                            db'[a].commissions[i].status) ]_vars

\* approve was called on a paid commission, which is still paid
C2_Witness ==
    /\ last.op = "approve"
    /\ \E a \in DOMAIN db :
          /\ HasId(db[a].commissions, last.id)
          /\ db[a].commissions[last.id].status = "paid"

\* the pay endpoint is called for a stored affiliate and a pending commission
PayOnPending(a, cid, method, reference) ==
    /\ Exists(a)
    /\ HasId(db[a].commissions, cid)
    /\ db[a].commissions[cid].status = "pending"
    /\ PostPay(a, cid, method, reference)

\* C4 as claimed: payCommission on a pending commission leaves the stored
\* affiliate document unchanged, every field of it.
C4_PayOnPendingLeavesDocumentUnchanged ==
    [][ last'.op = "pay" =>
        \A a \in AffIds, cid \in CommissionIds,
           method \in PayMethods, reference \in PayRefs :
          PayOnPending(a, cid, method, reference) => db' = db ]_vars

\* C4 as amended: payCommission on a pending commission leaves the
\* commission, the stats and every other modelled field unchanged except
\* lastActivityAt, which the save sets to the time of the call.
C4_PayOnPendingTouchesOnlyLastActivity ==
    [][ last'.op = "pay" =>
        \A a \in AffIds, cid \in CommissionIds,
           method \in PayMethods, reference \in PayRefs :
          PayOnPending(a, cid, method, reference) =>
              db' = [ db EXCEPT ![a].lastActivityAt = now ] ]_vars

\* pay was called on a commission that is pending, at a later time than the
\* document was created
C4_Witness ==
    /\ last.op = "pay"
    /\ resp = Paid
    /\ \E a \in DOMAIN db :
          /\ HasId(db[a].commissions, last.id)
          /\ db[a].commissions[last.id].status = "pending"
          /\ db[a].lastActivityAt = now
          /\ now > 1

\* C5: the approve and the pay endpoint answer with their success
\* confirmation whenever the affiliate exists, whatever the commission id and
\* the commission's status; they answer 404 exactly when the id is a
\* well-formed id of no stored affiliate.
C5_SuccessWheneverAffiliateExists ==
    [][ /\ last'.op = "approve" =>
            \A a \in RequestAffIds, cid \in CommissionIds :
                (\E admin \in Admins : PostApprove(a, cid, admin)) =>
                    /\ Exists(a) => resp' = Approved
                    /\ resp'.status = 404 <=> (a # BadId /\ ~Exists(a))
        /\ last'.op = "pay" =>
            \A a \in RequestAffIds, cid \in CommissionIds :
                (\E method \in PayMethods, reference \in PayRefs :
                    PostPay(a, cid, method, reference)) =>
                    /\ Exists(a) => resp' = Paid
                    /\ resp'.status = 404 <=> (a # BadId /\ ~Exists(a)) ]_vars

\* an endpoint confirmed success although the commission id matched no
\* commission, or the commission was not in the status the transition needs
C5_Witness ==
    /\ resp.success
    /\ \E a \in DOMAIN db :
          \/ ~HasId(db[a].commissions, last.id)
          \/ /\ last.op = "pay"
             /\ HasId(db[a].commissions, last.id)
             /\ db[a].commissions[last.id].status = "pending"
    /\ last.op \in {"approve", "pay"}

\* C6: recordConversion of an existing referral with order amount A on an
\* affiliate with rate R appends exactly one commission, pending, with
\* orderAmount A, commissionRate R and commissionAmount A x R, adds 1 to
\* successfulReferrals and adds A x R to totalCommissionEarned and to
\* pendingCommission.  (R is in percent: C = A x R reads C * 100 = A * R.)
C6_RecordConversionAppendsPending ==
    [][ last'.op = "recordConversion" =>
        \A a \in AffIds, rid \in ReferralIds, amount \in Amounts :
          (CallRecordConversion(a, rid, amount) /\ HasId(db[a].referrals, rid)) =>
              LET d == db[a]
                  e == db'[a]
                  n == Len(d.commissions)
                  c == e.commissions[n + 1]
              IN /\ Len(e.commissions) = n + 1
                 /\ \A i \in 1..n : e.commissions[i] = d.commissions[i]
                 /\ c.status = "pending"
                 /\ c.orderAmount = amount
                 /\ c.commissionRate = d.commissionRate
                 /\ c.commissionAmount * 100 = amount * d.commissionRate
                 /\ e.stats.successfulReferrals = d.stats.successfulReferrals + 1
                 /\ (e.stats.totalCommissionEarned - d.stats.totalCommissionEarned) * 100
                        = amount * d.commissionRate
                 /\ (e.stats.pendingCommission - d.stats.pendingCommission) * 100
                        = amount * d.commissionRate ]_vars

\* a conversion was recorded at a rate other than the default one
C6_Witness ==
    /\ last.op = "recordConversion"
    /\ \E a \in DOMAIN db :
          /\ HasId(db[a].referrals, last.id)
          /\ db[a].referrals[last.id].status = "converted"
          /\ db[a].commissionRate # DefaultRate
          /\ Len(db[a].commissions) >= 1
          /\ db[a].commissions[Len(db[a].commissions)].status = "pending"

\* C7 as claimed: after a recordConversion of an existing referral,
\* conversionRate is the ratio successfulReferrals / totalReferrals.
C7_ConversionRateIsRatio ==
    [][ last'.op = "recordConversion" =>
        \A a \in AffIds, rid \in ReferralIds, amount \in Amounts :
          (CallRecordConversion(a, rid, amount) /\ HasId(db[a].referrals, rid)) =>
              LET st == db'[a].stats
              IN st.conversionRate.num * st.totalReferrals
                     = st.successfulReferrals * st.conversionRate.den ]_vars

\* C7 as amended: after a recordConversion of an existing referral,
\* conversionRate is successfulReferrals / totalReferrals times 100, a
\* percentage, of the counters after the increment.
C7_ConversionRateIsPercentage ==
    [][ last'.op = "recordConversion" =>
        \A a \in AffIds, rid \in ReferralIds, amount \in Amounts :
          (CallRecordConversion(a, rid, amount) /\ HasId(db[a].referrals, rid)) =>
              LET st == db'[a].stats
              IN /\ st.totalReferrals > 0
                 /\ st.conversionRate.num * st.totalReferrals
                        = 100 * st.successfulReferrals * st.conversionRate.den ]_vars

\* the one referral was converted twice: the rate is 200 (percent)
C7_Witness ==
    /\ last.op = "recordConversion"
    /\ \E a \in DOMAIN db :
          /\ HasId(db[a].referrals, last.id)
          /\ db[a].stats.successfulReferrals = 2
          /\ db[a].stats.totalReferrals = 1
          /\ db[a].stats.conversionRate = [num |-> 200, den |-> 1]

\* C8: approveCommission changes a commission only when it is pending: it
\* then sets status approved, approvedBy and approvedAt; in every case the
\* counters and every other commission stay as they were.
C8_ApproveChangesOnlyPendingCommission ==
    [][ last'.op = "approve" =>
        \A a \in AffIds, cid \in CommissionIds, admin \in Admins :
          (Exists(a) /\ PostApprove(a, cid, admin)) =>
              LET d == db[a]
                  e == db'[a]
              IN /\ Len(e.commissions) = Len(d.commissions)
                 /\ \A i \in 1..Len(d.commissions) :
                       e.commissions[i] =
                           IF i = cid /\ d.commissions[i].status = "pending"
                           THEN [ d.commissions[i] EXCEPT
                                    !.status = "approved",
                                    !.approvedBy = admin,
                                    !.approvedAt = now ]
                           ELSE d.commissions[i]
                 /\ e.stats.totalCommissionEarned = d.stats.totalCommissionEarned
                 /\ e.stats.totalCommissionPaid = d.stats.totalCommissionPaid
                 /\ e.stats.pendingCommission = d.stats.pendingCommission
                 /\ e.stats.successfulReferrals = d.stats.successfulReferrals
                 /\ e.stats.totalReferrals = d.stats.totalReferrals ]_vars

\* approve has just approved one of two commissions
C8_Witness ==
    /\ last.op = "approve"
    /\ \E a \in DOMAIN db :
          /\ Len(db[a].commissions) = 2
          /\ HasId(db[a].commissions, last.id)
          /\ db[a].commissions[last.id].status = "approved"
          /\ db[a].commissions[last.id].approvedBy \in Admins
          /\ db[a].commissions[last.id].approvedAt = now

\* C9: payCommission on an approved commission of amount C sets it paid,
\* records method and reference, adds C to totalCommissionPaid, subtracts C
\* from pendingCommission and leaves totalCommissionEarned unchanged.
C9_PayApprovedMovesAmount ==
    [][ last'.op = "pay" =>
        \A a \in AffIds, cid \in CommissionIds,
           method \in PayMethods, reference \in PayRefs :
          ( /\ Exists(a)
            /\ HasId(db[a].commissions, cid)
            /\ db[a].commissions[cid].status = "approved"
            /\ PostPay(a, cid, method, reference) ) =>
              LET d == db[a]
                  e == db'[a]
                  C == d.commissions[cid].commissionAmount
              IN /\ e.commissions[cid].status = "paid"
                 /\ e.commissions[cid].paymentMethod = method
                 /\ e.commissions[cid].paymentReference = reference
                 /\ e.commissions[cid].commissionAmount = C
                 /\ e.stats.totalCommissionPaid = d.stats.totalCommissionPaid + C
                 /\ e.stats.pendingCommission = d.stats.pendingCommission - C
                 /\ e.stats.totalCommissionEarned = d.stats.totalCommissionEarned ]_vars

\* pay has just paid a commission of non-zero amount
C9_Witness ==
    /\ last.op = "pay"
    /\ \E a \in DOMAIN db :
          /\ HasId(db[a].commissions, last.id)
          /\ db[a].commissions[last.id].status = "paid"
          /\ db[a].commissions[last.id].paidAt = now
          /\ db[a].commissions[last.id].paymentMethod \in PayMethods
          /\ db[a].commissions[last.id].commissionAmount # 0

\* C10 as claimed: cancelled is reachable from pending, by a lifecycle step
\* that takes a pending commission to cancelled.  (An approved or paid
\* commission never becoming cancelled, such a step leads from pending
\* straight to cancelled; the claim is stated as that step being possible
\* wherever a commission is pending.)
C10_CancelledReachableFromPending ==
    \A a \in DOMAIN db :
        \A i \in 1..Len(db[a].commissions) :
            db[a].commissions[i].status = "pending" =>
                ENABLED (Next /\ a \in DOMAIN db'
                              /\ db'[a].commissions[i].status = "cancelled")

\* C10 as amended: the schema declares the status cancelled, but no
\* lifecycle operation assigns it: no commission, pending, approved or paid,
\* ever becomes cancelled.
C10_NoCommissionIsEverCancelled ==
    \A a \in DOMAIN db :
        \A i \in 1..Len(db[a].commissions) :
            db[a].commissions[i].status \in {"pending", "approved", "paid"}

\* approve and pay have been called on commissions in each status
C10_Witness ==
    /\ last.op = "pay"
    /\ \E a \in DOMAIN db : Statuses(db[a]) = {"pending", "paid"}

----------------------------------------------------------------------------
(* Properties of the interleaved execution (specification SpecRace) *)

RECURSIVE SumPaid(_)
\* the sum of commissionAmount over the paid commissions
SumPaid(cs) ==
    IF cs = << >> THEN 0
    ELSE (IF Head(cs).status = "paid" THEN Head(cs).commissionAmount ELSE 0)
         + SumPaid(Tail(cs))

\* C3: last writer wins.  The save of a pay request that found its
\* commission approved succeeds whatever was saved since the request loaded
\* the document, and stores the counters computed from the request's own
\* copy: totalCommissionPaid and pendingCommission of the copy plus and minus
\* the commission amount.  (The witness is the lost update this makes
\* reachable.)
C3_LastWriterWins ==
    [][ \A r \in ReqIds :
          ( /\ FinishRequest(r)
            /\ reqs[r].kind = "pay"
            /\ HasId(reqs[r].copy.commissions, reqs[r].cid)
            /\ reqs[r].copy.commissions[reqs[r].cid].status = "approved" ) =>
              LET q == reqs[r]
                  C == q.copy.commissions[q.cid].commissionAmount
              IN /\ reqs'[r].resp = Paid
                 /\ db'[q.aff].commissions[q.cid].status = "paid"
                 /\ db'[q.aff].stats.totalCommissionPaid
                        = q.copy.stats.totalCommissionPaid + C
                 /\ db'[q.aff].stats.pendingCommission
                        = q.copy.stats.pendingCommission - C ]_vars

\* both requests have answered success, every commission they paid is
\* stored as paid, and the amount of one is missing from totalCommissionPaid
C3_Witness ==
    /\ \A r \in ReqIds : reqs[r].pc = "done" /\ reqs[r].resp = Paid
    /\ \E a \in DOMAIN db :
          /\ \A r \in ReqIds :
                /\ HasId(db[a].commissions, reqs[r].cid)
                /\ db[a].commissions[reqs[r].cid].status = "paid"
          /\ db[a].stats.totalCommissionPaid # SumPaid(db[a].commissions)

----------------------------------------------------------------------------
(* Users: models/User (src/unnamed/part_003), the registration route       *)
(* (src/unnamed/part_001), routes/users.js and the user routes of          *)
(* routes/admin.js.                                                        *)
(*                                                                         *)
(* A user document keeps the fields the routes write.  A user's _id is its *)
(* position in the collection, and the collection is in insertion order,   *)
(* which is the order of createdAt.  A handler runs to completion before   *)
(* the next one starts; authenticateToken and the permission middleware of *)
(* a route have passed when its handler runs.                              *)

\* a field the request body does not carry
undefined == "undefined"

\* UserSchema: role and status enums with their defaults
RoleEnum == {"main_admin", "admin", "support", "customer", "client"}
StatusEnum == {"active", "inactive", "suspended", "pending"}

\* request inputs
Names == {"Ann", undefined}
Emails == {"a@x.com", "A@x.com", " a@x.com", "root@x.com", undefined}
Passwords == {"pw1"}
RequestRoles == {"main_admin", "customer", "Client", "owner", undefined}
RequestStatuses == {"pending", "deleted", undefined}
PutStatuses == {"active", "suspended", "pending", "deleted", undefined}
UserIds == {1, 2, 3}

\* String.prototype.toLowerCase and String.prototype.trim on the inputs
toLowerCase(s) ==
    CASE s = "A@x.com" -> "a@x.com"
      [] s = "Client"  -> "client"
      [] s = "Active"  -> "active"
      [] OTHER         -> s

trim(s) ==
    CASE s = " a@x.com" -> "a@x.com"
      [] OTHER          -> s

\* a || b on strings: undefined is falsy
OrElse(a, b) == IF a = undefined THEN b ELSE a

\* bcrypt.hash of the pre('save') hook
bcryptHash(password) == <<"bcrypt", password>>

\* new User(fields): the schema defaults fill what is undefined, and the
\* email setter (lowercase: true) lowers the email
NewUser(name, email, password, role, position, status) ==
    [ name     |-> name,
      email    |-> toLowerCase(email),
      password |-> password,
      role     |-> OrElse(role, "client"),
      position |-> OrElse(position, "Member"),
      status   |-> OrElse(status, "active") ]

\* document validation before a save: required paths and enums
ValidUser(doc) ==
    /\ doc.name # undefined
    /\ doc.email # undefined
    /\ doc.password # undefined
    /\ doc.role \in RoleEnum
    /\ doc.status \in StatusEnum

\* User.findOne({ email }): the query value goes through the email setter
\* too; the result is the _id of the match, or 0
FindUserByEmail(email) ==
    IF \E i \in 1..Len(users) : users[i].email = toLowerCase(email)
    THEN CHOOSE i \in 1..Len(users) : users[i].email = toLowerCase(email)
    ELSE 0

\* the unique index on email
EmailTaken(doc) == \E i \in 1..Len(users) : users[i].email = doc.email

\* newUser.save() of a new document: validation, the password hook, the
\* insert under the unique index; TRUE when the save succeeds
CanSaveUser(doc) == ValidUser(doc) /\ ~EmailTaken(doc)
SavedUser(doc) == [ doc EXCEPT !.password = bcryptHash(@) ]

\* res.status(status).json({ success, message })
Answer(status, message) ==
    [ status |-> status, success |-> status < 400, message |-> message ]

\* the last user request: the route, the _id it names (the requester of
\* create-user, the target of the status update; 0 when it names none) and
\* the email of its body
UserCall(op, id, email) == [ op |-> op, id |-> id, email |-> email ]

\* POST /auth/register (part_001 8-46)
PostRegister(name, email, password, role, position) ==
    LET exists == FindUserByEmail(email)
        newUser == NewUser(name, email, password, OrElse(role, "Client"),
                           OrElse(position, "Member"), "Active")
        saved == exists = 0 /\ CanSaveUser(newUser)
    IN /\ last' = UserCall("register", 0, email)
       /\ resp' = IF exists # 0 THEN Answer(409, "Email already exists")
                  ELSE IF saved THEN Answer(201, "token")
                  ELSE Answer(500, "Registration failed")
       /\ users' = IF saved THEN Append(users, SavedUser(newUser)) ELSE users
       /\ UNCHANGED <<now, affiliateVars, notifications, files, settings, storage>>

validRoles == {"admin", "main_admin", "support", "customer", "client"}

\* the same handler without the main_admin check
CreateUserResp_AnyRequester(requester, name, email, password, role, status) ==
    LET userData == NewUser(trim(name), trim(toLowerCase(email)), password,
                            toLowerCase(role), undefined, OrElse(status, "active"))
    IN IF undefined \in {name, email, password, role}
       THEN Answer(400, "Name, email, password, and role are required.")
       ELSE IF toLowerCase(role) \notin validRoles THEN Answer(400, "Invalid role specified.")
       ELSE IF FindUserByEmail(toLowerCase(email)) # 0
       THEN Answer(409, "A user with this email already exists.")
       ELSE IF CanSaveUser(userData) THEN Answer(201, "User created successfully.")
       ELSE Answer(500, "Error creating user.")

\* what POST /users/create-user answers, in the order of its checks
CreateUserResp(requester, name, email, password, role, status) ==
    LET userData == NewUser(trim(name), trim(toLowerCase(email)), password,
                            toLowerCase(role), undefined, OrElse(status, "active"))
    IN IF requester \notin 1..Len(users)
       THEN Answer(403, "Only main administrators can create new users.")
       ELSE IF users[requester].role # "main_admin"
       THEN Answer(403, "Only main administrators can create new users.")
       ELSE IF undefined \in {name, email, password, role}
       THEN Answer(400, "Name, email, password, and role are required.")
       ELSE IF toLowerCase(role) \notin validRoles THEN Answer(400, "Invalid role specified.")
       ELSE IF FindUserByEmail(toLowerCase(email)) # 0
       THEN Answer(409, "A user with this email already exists.")
       ELSE IF CanSaveUser(userData) THEN Answer(201, "User created successfully.")
       ELSE Answer(500, "Error creating user.")

\* POST /users/create-user (routes/users.js 17-91); requester is req.user.id
PostCreateUser(requester, name, email, password, role, status) ==
    LET answer == CreateUserResp(requester, name, email, password, role, status)
        userData == NewUser(trim(name), trim(toLowerCase(email)), password,
                            toLowerCase(role), undefined, OrElse(status, "active"))
    IN /\ last' = UserCall("create-user", requester, email)
       /\ resp' = answer
       /\ users' = IF answer = Answer(201, "User created successfully.")
                   THEN Append(users, SavedUser(userData))
                   ELSE users
       /\ UNCHANGED <<now, affiliateVars, notifications, files, settings, storage>>

\* the legacy endpoint without its lookup, leaving duplicates to the unique
\* index
PostAdminCreateUser_NoLookup(name, email, password, role) ==
    LET newUser == NewUser(name, email, password, role, undefined, undefined)
        saved == CanSaveUser(newUser)
    IN /\ last' = UserCall("admin-create-user", 0, email)
       /\ resp' = IF saved THEN Answer(201, "User created") ELSE Answer(500, "User creation failed")
       /\ users' = IF saved THEN Append(users, SavedUser(newUser)) ELSE users
       /\ UNCHANGED <<now, affiliateVars, notifications, files, settings, storage>>

\* POST /admin/create-user, the legacy endpoint (routes/admin.js 266-279)
PostAdminCreateUser(name, email, password, role) ==
    LET exists == FindUserByEmail(email)
        newUser == NewUser(name, email, password, role, undefined, undefined)
        saved == exists = 0 /\ CanSaveUser(newUser)
    IN /\ last' = UserCall("admin-create-user", 0, email)
       /\ resp' = IF exists # 0 THEN Answer(409, "Email already registered.")
                  ELSE IF saved THEN Answer(201, "User created")
                  ELSE Answer(500, "User creation failed")
       /\ users' = IF saved THEN Append(users, SavedUser(newUser)) ELSE users
       /\ UNCHANGED <<now, affiliateVars, notifications, files, settings, storage>>

CustomerStatuses == {"active", "inactive", "suspended"}

\* User.findByIdAndUpdate(id, { status }): the stored document with that
\* _id gets the status; no document, no change
UpdateStatus(coll, id, status) ==
    IF id \in 1..Len(coll) THEN [ coll EXCEPT ![id].status = status ] ELSE coll

\* the same update without the handler's check of the value
PutCustomerStatusResp_AnyValue(id, status) ==
    IF id = BadId THEN Answer(500, "Failed to update customer status")
    ELSE Answer(200, "Customer status updated")

PutCustomerStatusResp(id, status) ==
    IF status \notin CustomerStatuses THEN Answer(400, "Invalid status")
    ELSE IF id = BadId THEN Answer(500, "Failed to update customer status")
    ELSE Answer(200, "Customer status updated")

\* PUT /admin/customers/:id/status (routes/admin.js 123-142)
PutCustomerStatus(id, status) ==
    LET answer == PutCustomerStatusResp(id, status)
    IN /\ last' = UserCall("status", id, undefined)
       /\ resp' = answer
       /\ users' = IF answer = Answer(200, "Customer status updated")
                   THEN UpdateStatus(users, id, status)
                   ELSE users
       /\ UNCHANGED <<now, affiliateVars, notifications, files, settings, storage>>

\* the main administrator the installation starts with
\* the password of a login body: the right one, a wrong one, none, and the
\* JSON number 123 (written as a string of its own)
LoginPasswords == {"pw1", "wrong", undefined, "number 123"}

\* user.comparePassword(candidate): bcrypt.compare against the stored hash
comparePassword(doc, candidate) == doc.password = bcryptHash(candidate)

\* POST /auth/login (part_001 49-87).  bcrypt.compare rejects when the
\* candidate is not a string, which the catch answers with 500.
PostLogin(email, password) ==
    LET user == FindUserByEmail(email)
    IN /\ last' = [ password |-> password ] @@ UserCall("login", user, email)
       /\ resp' = IF email = undefined \/ password = undefined
                  THEN Answer(400, "Email and password required")
                  ELSE IF user = 0 THEN Answer(400, "No user found")
                  ELSE IF password = "number 123" THEN Answer(500, "Login failed")
                  ELSE IF ~comparePassword(users[user], password)
                  THEN Answer(400, "Wrong password")
                  ELSE [ status |-> 200, success |-> TRUE,
                         token |-> [ id |-> user, email |-> users[user].email,
                                     role |-> users[user].role ] ]
       /\ UNCHANGED <<now, affiliateVars, users, notifications, files, settings, storage>>

RootUser ==
    SavedUser(NewUser("Root", "root@x.com", "pw1", "main_admin", undefined, undefined))

InitUsers ==
    /\ users = <<RootUser>>
    /\ db = << >>
    /\ reqs = << >>
    /\ now = 1
    /\ resp = NoResp
    /\ last = UserCall("none", 0, undefined)
    /\ notifications = << >>
    /\ files = << >>
    /\ settings = << >>
    /\ storage = {}

NextUsers ==
    \/ \E name \in Names, email \in Emails, password \in Passwords,
          role \in RequestRoles, position \in {undefined} :
          PostRegister(name, email, password, role, position)
    \/ \E requester \in UserIds, name \in Names, email \in Emails,
          password \in Passwords, role \in RequestRoles,
          status \in RequestStatuses :
          PostCreateUser(requester, name, email, password, role, status)
    \/ \E name \in Names, email \in Emails, password \in Passwords,
          role \in RequestRoles :
          PostAdminCreateUser(name, email, password, role)
    \/ \E id \in UserIds \cup {BadId}, status \in PutStatuses :
          PutCustomerStatus(id, status)
    \/ \E email \in Emails, password \in LoginPasswords :
          PostLogin(email, password)

SpecUsers == InitUsers /\ [][NextUsers]_vars

----------------------------------------------------------------------------
(* Claims about users *)

\* the request's email is the email of a stored user
EmailStored(email) == \E i \in 1..Len(users) : users[i].email = email

CreateOps == {"register", "create-user", "admin-create-user"}

C12_RegisterStoresValidUser ==
    [][ last'.op = "register"
          => \A name \in Names \ {undefined}, email \in Emails \ {undefined},
                password \in Passwords \ {undefined}, role \in RequestRoles,
                position \in {undefined} :
                (PostRegister(name, email, password, role, position)
                   /\ FindUserByEmail(email) = 0)
                  => /\ Len(users') = Len(users) + 1
                     /\ SubSeq(users', 1, Len(users)) = users
                     /\ ValidUser(users'[Len(users')])
                     /\ resp' = Answer(201, "token") ]_vars

C16_OnlyMainAdminCreatesUsers ==
    [][ last'.op = "create-user"
          => LET mainAdmin == /\ last'.id \in 1..Len(users)
                              /\ users[last'.id].role = "main_admin"
             IN /\ users' # users => mainAdmin
                /\ ~mainAdmin => (resp'.status = 403 /\ users' = users) ]_vars

\* a stored user that is no main_admin asked and was refused, and a
\* main_admin had created that user before
C16_Witness ==
    /\ last.op = "create-user"
    /\ resp = Answer(403, "Only main administrators can create new users.")
    /\ last.id \in 2..Len(users)
    /\ users[last.id].role # "main_admin"

\* C25 as stated: login returns a token only when email and password are
\* supplied, a stored user has that email and the password is that user's;
\* every other login is answered 400 without a token, and no login changes
\* a stored user.
C25_LoginAnswersTokenOr400 ==
    [][ last'.op = "login"
          => LET matches ==
                   /\ last'.email # undefined
                   /\ last'.password # undefined
                   /\ \E i \in 1..Len(users) :
                         /\ users[i].email = toLowerCase(last'.email)
                         /\ users[i].password = bcryptHash(last'.password)
             IN /\ users' = users
                /\ "token" \in DOMAIN resp' => matches
                /\ ~matches => resp'.status = 400 ]_vars

----------------------------------------------------------------------------
(* Notifications: the read routes of routes/notifications (the second file *)
(* of routes/admin.js).  models/Notification is not part of the sources:   *)
(* markAsRead, archive and dismiss are modelled as the specification       *)
(* describes them.  A notification keeps its recipient, status and readAt. *)

NotificationIds == {1, 2, 3}
Recipients == {1, 2}

NewNotification(userId, status) ==
    [ recipient |-> userId, status |-> status, readAt |-> NoDate ]

\* notification.markAsRead(): status becomes read and readAt is set, once
markAsRead(n, t) ==
    IF n.status = "read" THEN n
    ELSE [ n EXCEPT !.status = "read", !.readAt = t ]

\* the lookup by _id alone
FindNotification_AnyRecipient(id, userId) ==
    IF id \in 1..Len(notifications) /\ notifications[id].status # "removed"
    THEN id ELSE 0

\* Notification.findOne({ _id, 'recipient.userId': userId }): the _id of the
\* match, or 0
FindNotification(id, userId) ==
    IF id \in 1..Len(notifications) /\ notifications[id].recipient = userId
    THEN id ELSE 0

\* the bulk update without the status filter
readAll_AnyStatus(coll, userId, t) ==
    [ i \in 1..Len(coll) |->
        IF coll[i].recipient = userId
        THEN [ coll[i] EXCEPT !.status = "read", !.readAt = t ]
        ELSE coll[i] ]

\* Notification.updateMany({ 'recipient.userId': userId, status: 'unread' },
\*                         { status: 'read', readAt: new Date() })
readAll(coll, userId, t) ==
    [ i \in 1..Len(coll) |->
        IF coll[i].recipient = userId /\ coll[i].status = "unread"
        THEN [ coll[i] EXCEPT !.status = "read", !.readAt = t ]
        ELSE coll[i] ]

\* the last notification request: route, :id, req.user.id and its time
NotificationCall(op, id, userId, t) ==
    [ op |-> op, id |-> id, user |-> userId, at |-> t ]

\* PUT /notifications/:id/read (routes/admin.js 486-513); userId is
\* req.user.id
PutRead(userId, id) ==
    LET found == FindNotification(id, userId)
    IN /\ last' = NotificationCall("read", id, userId, now)
       /\ resp' = IF id = BadId THEN Answer(500, "Failed to mark notification as read")
                  ELSE IF found = 0 THEN Answer(404, "Notification not found")
                  ELSE Answer(200, "Notification marked as read")
       /\ notifications' = IF found # 0
                           THEN [ notifications EXCEPT ![found] = markAsRead(@, now) ]
                           ELSE notifications
       /\ UNCHANGED <<now, affiliateVars, users, files, settings, storage>>

\* PUT /notifications/read-all (routes/admin.js 516-544)
PutReadAll(userId) ==
    /\ last' = NotificationCall("read-all", 0, userId, now)
    /\ resp' = Answer(200, "All notifications marked as read")
    /\ notifications' = readAll(notifications, userId, now)
    /\ UNCHANGED <<now, affiliateVars, users, files, settings, storage>>

\* the place of a deleted notification: its _id is never given to another
\* document and its recipient is 0, the _id of no user
Removed ==
    [ recipient |-> 0, status |-> "removed", readAt |-> NoDate ]

\* notification.archive() and notification.dismiss(): the status changes
archive(n) == [ n EXCEPT !.status = "archived" ]
dismiss(n) == [ n EXCEPT !.status = "dismissed" ]

\* GET /notifications/:id (routes/admin.js 458-483)
GetNotification(userId, id) ==
    LET found == FindNotification(id, userId)
    IN /\ last' = NotificationCall("get", id, userId, now)
       /\ resp' = IF id = BadId THEN Answer(500, "Failed to fetch notification")
                  ELSE IF found = 0 THEN Answer(404, "Notification not found")
                  ELSE [ status |-> 200, success |-> TRUE,
                         notification |-> notifications[found] ]
       /\ UNCHANGED <<now, affiliateVars, users, notifications, files, settings, storage>>

\* PUT /notifications/:id/archive (routes/admin.js 547-574)
PutArchive(userId, id) ==
    LET found == FindNotification(id, userId)
    IN /\ last' = NotificationCall("archive", id, userId, now)
       /\ resp' = IF id = BadId THEN Answer(500, "Failed to archive notification")
                  ELSE IF found = 0 THEN Answer(404, "Notification not found")
                  ELSE Answer(200, "Notification archived")
       /\ notifications' = IF found # 0
                           THEN [ notifications EXCEPT ![found] = archive(@) ]
                           ELSE notifications
       /\ UNCHANGED <<now, affiliateVars, users, files, settings, storage>>

\* PUT /notifications/:id/dismiss (routes/admin.js 577-604)
PutDismiss(userId, id) ==
    LET found == FindNotification(id, userId)
    IN /\ last' = NotificationCall("dismiss", id, userId, now)
       /\ resp' = IF id = BadId THEN Answer(500, "Failed to dismiss notification")
                  ELSE IF found = 0 THEN Answer(404, "Notification not found")
                  ELSE Answer(200, "Notification dismissed")
       /\ notifications' = IF found # 0
                           THEN [ notifications EXCEPT ![found] = dismiss(@) ]
                           ELSE notifications
       /\ UNCHANGED <<now, affiliateVars, users, files, settings, storage>>

\* DELETE /notifications/:id (routes/admin.js 607-632): findOneAndDelete
\* with the same filter
DeleteNotification(userId, id) ==
    LET found == FindNotification(id, userId)
    IN /\ last' = NotificationCall("delete", id, userId, now)
       /\ resp' = IF id = BadId THEN Answer(500, "Failed to delete notification")
                  ELSE IF found = 0 THEN Answer(404, "Notification not found")
                  ELSE Answer(200, "Notification deleted")
       /\ notifications' = IF found # 0
                           THEN [ notifications EXCEPT ![found] = Removed ]
                           ELSE notifications
       /\ UNCHANGED <<now, affiliateVars, users, files, settings, storage>>

\* new Date() moves on
TickNotifications ==
    /\ now < MaxTime
    /\ now' = now + 1
    /\ UNCHANGED <<resp, last, affiliateVars, users, notifications, files, settings, storage>>

InitNotifications ==
    /\ \E r3 \in Recipients, s3 \in {"unread", "archived"} :
          notifications = << NewNotification(1, "unread"),
                             NewNotification(2, "unread"),
                             NewNotification(r3, s3) >>
    /\ db = << >>
    /\ reqs = << >>
    /\ now = 1
    /\ resp = NoResp
    /\ last = NotificationCall("none", 0, 0, 0)
    /\ users = << >>
    /\ files = << >>
    /\ settings = << >>
    /\ storage = {}

NextNotifications ==
    \/ TickNotifications
    \/ \E userId \in Recipients, id \in NotificationIds \cup {BadId, 4} :
          PutRead(userId, id)
    \/ \E userId \in Recipients : PutReadAll(userId)
    \/ \E userId \in Recipients, id \in NotificationIds \cup {BadId, 4} :
          GetNotification(userId, id)
    \/ \E userId \in Recipients, id \in NotificationIds \cup {BadId, 4} :
          PutArchive(userId, id)
    \/ \E userId \in Recipients, id \in NotificationIds \cup {BadId, 4} :
          PutDismiss(userId, id)
    \/ \E userId \in Recipients, id \in NotificationIds \cup {BadId, 4} :
          DeleteNotification(userId, id)

SpecNotifications == InitNotifications /\ [][NextNotifications]_vars

\* C13: marking a notification read sets its status to read and sets
\* readAt; a notification that is read already is left as it is, with the
\* readAt of its first marking, by every mark-read and every read-all.
C13_MarkReadIsIdempotent ==
    [][ last'.op \in {"read", "read-all"}
          => /\ Len(notifications') = Len(notifications)
             /\ \A i \in 1..Len(notifications) :
                   LET n == notifications[i]
                       marked == /\ n.recipient = last'.user
                                 /\ \/ last'.op = "read" /\ i = last'.id
                                    \/ last'.op = "read-all" /\ n.status = "unread"
                   IN /\ n.status = "read" => notifications'[i] = n
                      /\ (marked /\ n.status # "read")
                           => notifications'[i] =
                                [ n EXCEPT !.status = "read", !.readAt = now ]
                      /\ ~marked => notifications'[i] = n ]_vars

\* a notification read at time 1 was marked again at time 2, by the single
\* route, and still carries the first readAt
C13_Witness ==
    /\ last.op = "read"
    /\ resp = Answer(200, "Notification marked as read")
    /\ last.at = 2
    /\ notifications[last.id].status = "read"
    /\ notifications[last.id].readAt = 1

\* the routes that name one notification
PerNotificationOps == {"get", "read", "archive", "dismiss", "delete"}

\* C21: get, mark read, archive, dismiss, delete and read-all act only on
\* notifications whose recipient is the requesting user: a per-notification
\* request for a notification addressed to another user is answered 404,
\* and no request changes a notification addressed to another user.
C21_OnlyOwnNotifications ==
    [][ last'.op \in PerNotificationOps \cup {"read-all"}
          => /\ Len(notifications') = Len(notifications)
             /\ \A i \in 1..Len(notifications) :
                   notifications[i].recipient # last'.user
                     => notifications'[i] = notifications[i]
             /\ ( /\ last'.op \in PerNotificationOps
                  /\ last'.id \in 1..Len(notifications)
                  /\ notifications[last'.id].recipient \in Recipients \ {last'.user} )
                  => resp'.status = 404 ]_vars

\* user 1 deleted a notification of their own, and then asked to delete one
\* addressed to user 2, which is still stored as it was
C21_Witness ==
    /\ last.op = "delete"
    /\ last.user = 1
    /\ resp = Answer(404, "Notification not found")
    /\ last.id \in 1..Len(notifications)
    /\ notifications[last.id] = NewNotification(2, "unread")
    /\ \E i \in 1..Len(notifications) : notifications[i] = Removed

----------------------------------------------------------------------------
(* List endpoints: GET /admin/customers, /admin/orders and                 *)
(* /admin/ai-phone/calls (routes/admin.js), GET /notifications,            *)
(* GET /affiliates and GET /settings/files (part_000).  Each computes      *)
(* skip and limit from the query strings page and limit, runs find, sort,  *)
(* skip, limit and countDocuments on one filter, and reports the number of *)
(* pages.  The documents the filter matches are given in sort order; a     *)
(* document is named by its rank in insertion order, and the sort is       *)
(* createdAt descending.                                                   *)

\* req.query.page and req.query.limit: decimal strings, or absent
QueryNumbers == {"1", "2", "3", undefined}

\* the number a decimal string is converted to by * 1, - 1, / and parseInt
ToNumber(q) ==
    CASE q = "1" -> 1
      [] q = "2" -> 2
      [] q = "3" -> 3

\* const { page = 1, limit = 20 } = req.query, used as a number
NumberOr(q, default) == IF q = undefined THEN default ELSE ToNumber(q)

\* parseInt(req.query.limit) || 50
parseIntOr(q, default) ==
    IF q = undefined THEN default
    ELSE IF ToNumber(q) = 0 THEN default
    ELSE ToNumber(q)

\* Math.ceil(total / limit)
Ceil(total, limit) ==
    IF total % limit = 0 THEN total \div limit ELSE (total \div limit) + 1

\* the offset, had it been page * limit
skipOf_PageTimesLimit(page, limit) == page * limit

\* (page - 1) * limit
skipOf(page, limit) == (page - 1) * limit

Min(a, b) == IF a <= b THEN a ELSE b

\* Model.find(query).sort(...).limit(limit).skip(skip) on the sorted matches
FindPage(sorted, limit, skip) == SubSeq(sorted, skip + 1, Min(skip + limit, Len(sorted)))

\* Notification.findForUser(userId, { limit, page, ... }): the page of the
\* user's notifications
findForUser(sorted, limit, page) == FindPage(sorted, limit, (page - 1) * limit)

\* n matching documents, newest first
SortedMatches(n) == [ i \in 1..n |-> n + 1 - i ]

ListCall(op, page, limit, total) ==
    [ op |-> op, page |-> page, limit |-> limit, total |-> total ]

ListResp(items, totalPages, total) ==
    [ status |-> 200, success |-> TRUE, items |-> items,
      totalPages |-> totalPages, total |-> total ]

\* the query-string arithmetic of the three admin lists and the affiliates
\* list: .limit(limit * 1).skip((page - 1) * limit), Math.ceil(total / limit)
QueryStringList(op, n, page, limit, defaultLimit) ==
    LET l == NumberOr(limit, defaultLimit)
        pg == NumberOr(page, 1)
    IN /\ last' = ListCall(op, page, limit, n)
       /\ resp' = ListResp(FindPage(SortedMatches(n), l * 1, skipOf(pg, l)),
                           Ceil(n, l), n)
       /\ UNCHANGED <<now, affiliateVars, users, notifications, files, settings, storage>>

\* GET /admin/customers (routes/admin.js 49-86)
GetCustomers(n, page, limit) == QueryStringList("customers", n, page, limit, 20)

\* GET /admin/orders (routes/admin.js 145-180)
GetOrders(n, page, limit) == QueryStringList("orders", n, page, limit, 20)

\* GET /admin/ai-phone/calls (routes/admin.js 217-244)
GetCalls(n, page, limit) == QueryStringList("calls", n, page, limit, 20)

\* GET /affiliates (part_000 384-469)
GetAffiliates(n, page, limit) == QueryStringList("affiliates", n, page, limit, 50)

\* GET /notifications (routes/admin.js 349-409)
GetNotifications(n, page, limit) ==
    /\ last' = ListCall("notifications", page, limit, n)
    /\ resp' = ListResp(findForUser(SortedMatches(n),
                                    NumberOr(limit, 20),
                                    NumberOr(page, 1)),
                        Ceil(n, NumberOr(limit, 20)), n)
    /\ UNCHANGED <<now, affiliateVars, users, notifications, files, settings, storage>>

\* GET /settings/files/:category? (part_000 330-366)
GetFiles(n, page, limit) ==
    LET l == parseIntOr(limit, 50)
        pg == parseIntOr(page, 1)
        skip == skipOf(pg, l)
    IN /\ last' = ListCall("files", page, limit, n)
       /\ resp' = ListResp(FindPage(SortedMatches(n), l, skip), Ceil(n, l), n)
       /\ UNCHANGED <<now, affiliateVars, users, notifications, files, settings, storage>>

InitList ==
    /\ last = ListCall("none", undefined, undefined, 0)
    /\ resp = NoResp
    /\ now = 1
    /\ db = << >>
    /\ reqs = << >>
    /\ users = << >>
    /\ notifications = << >>
    /\ files = << >>
    /\ settings = << >>
    /\ storage = {}

NextList ==
    \/ \E n \in 0..MaxItems, page, limit \in QueryNumbers : GetCustomers(n, page, limit)
    \/ \E n \in 0..MaxItems, page, limit \in QueryNumbers : GetOrders(n, page, limit)
    \/ \E n \in 0..MaxItems, page, limit \in QueryNumbers : GetCalls(n, page, limit)
    \/ \E n \in 0..MaxItems, page, limit \in QueryNumbers : GetAffiliates(n, page, limit)
    \/ \E n \in 0..MaxItems, page, limit \in QueryNumbers : GetNotifications(n, page, limit)
    \/ \E n \in 0..MaxItems, page, limit \in QueryNumbers : GetFiles(n, page, limit)

SpecList == InitList /\ [][NextList]_vars

ListOps == {"customers", "orders", "calls", "affiliates", "notifications", "files"}

\* the page size in force for a request of the route
LimitInForce(op, limit) ==
    IF limit # undefined THEN ToNumber(limit)
    ELSE IF op \in {"affiliates", "files"} THEN 50
    ELSE 20

\* C14: for every list endpoint, page >= 1 and limit >= 1, the response
\* reports totalPages = ceil(total / limit) and returns the items at
\* positions (page-1)*limit .. (page-1)*limit + limit - 1 of the sorted
\* matching set, at most limit items.
C14_PageIsSliceOfSortedMatches ==
    last.op \in ListOps
      => LET l == LimitInForce(last.op, last.limit)
             pg == IF last.page = undefined THEN 1 ELSE ToNumber(last.page)
             sorted == SortedMatches(last.total)
             positions == { j \in 1..last.total : (pg - 1) * l < j /\ j <= pg * l }
         IN /\ resp.total = last.total
            /\ resp.totalPages * l >= last.total
            /\ (resp.totalPages - 1) * l < last.total
            /\ Len(resp.items) <= l
            /\ Len(resp.items) = Cardinality(positions)
            /\ \A k \in 1..Len(resp.items) :
                  resp.items[k] = sorted[(pg - 1) * l + k]

\* page 2 of five affiliates, two a page: the third and fourth newest, of
\* three pages
C14_Witness ==
    /\ last = ListCall("affiliates", "2", "2", 5)
    /\ resp.items = <<3, 2>>
    /\ resp.totalPages = 3

----------------------------------------------------------------------------
(* The affiliates router (part_000, second file): every route is declared  *)
(* as router.verb(path, authenticateToken, requireAdminPermission,         *)
(* handler).  A request passes the middleware of its route in order and    *)
(* then reaches the handler; a middleware that refuses answers and ends    *)
(* the request.  middleware/auth is not part of the sources: the two       *)
(* middleware are modelled as the specification describes them, a token    *)
(* check and an admin-only guard.  One request is in flight at a time; it  *)
(* is answered when last names its handler's call.                         *)

Requesters == {"anonymous", "customer", "admin", "main_admin"}

\* authenticateToken: the request carries a valid token
authenticateToken(requester) == requester # "anonymous"

\* the admin permission check
requireAdminPermission(requester) == requester \in {"admin", "main_admin"}

Passes(middleware, requester) ==
    CASE middleware = "authenticateToken" -> authenticateToken(requester)
      [] middleware = "requireAdminPermission" -> requireAdminPermission(requester)

AffiliateRoutes ==
    { "list", "get", "create", "update", "delete", "approve", "pay",
      "analytics", "generate-link", "bulk-action" }

\* the router with generate-link declared without the guard
Chain_GenerateLinkUnguarded(route) ==
    IF route = "generate-link"
    THEN <<"authenticateToken">>
    ELSE <<"authenticateToken", "requireAdminPermission">>

\* the middleware a route is declared with
Chain(route) ==
    CASE route = "list"          -> <<"authenticateToken", "requireAdminPermission">>
      [] route = "get"           -> <<"authenticateToken", "requireAdminPermission">>
      [] route = "create"        -> <<"authenticateToken", "requireAdminPermission">>
      [] route = "update"        -> <<"authenticateToken", "requireAdminPermission">>
      [] route = "delete"        -> <<"authenticateToken", "requireAdminPermission">>
      [] route = "approve"       -> <<"authenticateToken", "requireAdminPermission">>
      [] route = "pay"           -> <<"authenticateToken", "requireAdminPermission">>
      [] route = "analytics"     -> <<"authenticateToken", "requireAdminPermission">>
      [] route = "generate-link" -> <<"authenticateToken", "requireAdminPermission">>
      [] route = "bulk-action"   -> <<"authenticateToken", "requireAdminPermission">>

\* the request in flight
Request(pc, route, requester, at) ==
    [ pc |-> pc, route |-> route, requester |-> requester, at |-> at ]

Answered ==
    \/ reqs[1].pc \in {"idle", "refused"}
    \/ reqs[1].pc = "handler" /\ last # NoCall

\* a request for a route of the router arrives
Arrive(route, requester) ==
    /\ Answered
    /\ reqs' = [ r \in {1} |-> Request("chain", route, requester, 1) ]
    /\ last' = NoCall
    /\ resp' = NoResp
    /\ UNCHANGED <<db, now, otherCollections>>

\* Express calls the next middleware of the route
RunMiddleware ==
    /\ reqs[1].pc = "chain"
    /\ LET q == reqs[1]
           middleware == Chain(q.route)[q.at]
       IN IF Passes(middleware, q.requester)
          THEN /\ reqs' = [ reqs EXCEPT ![1] =
                              IF q.at = Len(Chain(q.route))
                              THEN [ q EXCEPT !.pc = "handler" ]
                              ELSE [ q EXCEPT !.at = @ + 1 ] ]
               /\ resp' = resp
          ELSE /\ reqs' = [ reqs EXCEPT ![1] = [ q EXCEPT !.pc = "refused" ] ]
               /\ resp' = IF middleware = "authenticateToken"
                          THEN Answer(401, "Access token required") ELSE Answer(403, "Admin access required")
    /\ UNCHANGED <<db, now, last, otherCollections>>

\* the request has reached the handler of the route
Handling(route) ==
    /\ reqs[1].pc = "handler"
    /\ reqs[1].route = route
    /\ last = NoCall

----------------------------------------------------------------------------
(* The handlers of the affiliates router that are not part of the          *)
(* commission lifecycle                                                    *)

AffiliateNames == {"Ann", undefined}
AffiliateEmails == {"acme@example.com", "A@x.com", undefined}

AffiliateStatusEnum == {"active", "inactive", "suspended", "pending"}
TierEnum == {"bronze", "silver", "gold", "platinum"}
MaxRate == 100

\* GET / (part_000 384-469)
ListAffiliates ==
    /\ Handling("list")
    /\ last' = Call("list", 0)
    /\ resp' = Answer(200, "affiliates")
    /\ UNCHANGED <<db, now, reqs, otherCollections>>

\* GET /:id (part_000 474-501)
GetAffiliate(a) ==
    /\ Handling("get")
    /\ last' = Call("get", 0)
    /\ resp' = IF a = BadId THEN Answer(500, "Error fetching affiliate")
               ELSE IF ~Exists(a) THEN NotFound
               ELSE Answer(200, "affiliate")
    /\ UNCHANGED <<db, now, reqs, otherCollections>>

\* new Affiliate({ name, email: email.toLowerCase(), tier, commissionRate,
\* ..., status: 'active' }): the request names no affiliateId and no
\* referralCode
CreatedAffiliate(name, email, t) ==
    [ NewAffiliate(DefaultRate, t) EXCEPT
        !.name = trim(name),
        !.email = trim(toLowerCase(toLowerCase(email))),
        !.affiliateId = NoText,
        !.referralCode = NoText,
        !.status = "active",
        !.tier = "bronze" ]

\* document validation: required paths, enums, the range of commissionRate
ValidAffiliate(doc) ==
    /\ doc.name # undefined
    /\ doc.email # undefined
    /\ doc.affiliateId # NoText
    /\ doc.referralCode # NoText
    /\ doc.status \in AffiliateStatusEnum
    /\ doc.tier \in TierEnum
    /\ doc.commissionRate \in 0..MaxRate

\* Affiliate.findOne({ email: email.toLowerCase() })
AffiliateEmailTaken(email) ==
    \E a \in DOMAIN db : db[a].email = trim(toLowerCase(toLowerCase(email)))

\* the _id of a new document
NextAffId == CHOOSE a \in 1..(Cardinality(DOMAIN db) + 1) : a \notin DOMAIN db

\* affiliate.save() of a new document: the document is validated, then the
\* pre('save') hook runs, then the document is inserted; TRUE when the
\* validation passes
CanSaveAffiliate(doc) == ValidAffiliate(doc)

\* POST / (part_000 506-559)
PostAffiliate(name, email) ==
    LET doc == CreatedAffiliate(name, email, now)
        saved == /\ email # undefined
                 /\ ~AffiliateEmailTaken(email)
                 /\ CanSaveAffiliate(doc)
    IN /\ Handling("create")
       /\ last' = Call("create", 0)
       /\ resp' = IF email = undefined THEN Answer(500, "Error creating affiliate")
                  ELSE IF AffiliateEmailTaken(email) THEN Answer(409, "Affiliate with this email already exists")
                  ELSE IF saved THEN Answer(201, "Affiliate created successfully")
                  ELSE Answer(500, "Error creating affiliate")
       /\ db' = IF saved THEN db @@ (NextAffId :> preSave(doc, now)) ELSE db
       /\ UNCHANGED <<now, reqs, otherCollections>>

\* req.body of PUT /:id
Updates ==
    { [ status |-> "suspended" ],
      [ tier |-> "gold" ],
      [ tier |-> "diamond" ],
      [ commissionRate |-> 200 ],
      [ stats |-> [ DefaultStats EXCEPT !.totalCommissionPaid = 500 ] ] }

\* runValidators: the validators of the paths the update sets
ValidUpdate(updates) ==
    /\ "status" \in DOMAIN updates => updates.status \in AffiliateStatusEnum
    /\ "tier" \in DOMAIN updates => updates.tier \in TierEnum
    /\ "commissionRate" \in DOMAIN updates => updates.commissionRate \in 0..MaxRate

\* { $set: updates }
ApplySet(doc, updates) ==
    [ f \in DOMAIN doc |-> IF f \in DOMAIN updates THEN updates[f] ELSE doc[f] ]

\* PUT /:id (part_000 564-596)
PutAffiliate(a, updates) ==
    LET updated == a # BadId /\ ValidUpdate(updates) /\ Exists(a)
    IN /\ Handling("update")
       /\ last' = Call("update", 0)
       /\ resp' = IF a = BadId \/ ~ValidUpdate(updates) THEN Answer(500, "Error updating affiliate")
                  ELSE IF ~Exists(a) THEN NotFound
                  ELSE Answer(200, "Affiliate updated successfully")
       /\ db' = IF updated THEN [ db EXCEPT ![a] = ApplySet(@, updates) ] ELSE db
       /\ UNCHANGED <<now, reqs, otherCollections>>

\* DELETE /:id (part_000 601-625)
DeleteAffiliate(a) ==
    /\ Handling("delete")
    /\ last' = Call("delete", 0)
    /\ resp' = IF a = BadId THEN Answer(500, "Error deleting affiliate")
               ELSE IF ~Exists(a) THEN NotFound
               ELSE Answer(200, "Affiliate deleted successfully")
    /\ db' = IF a # BadId /\ Exists(a)
             THEN [ x \in DOMAIN db \ {a} |-> db[x] ]
             ELSE db
    /\ UNCHANGED <<now, reqs, otherCollections>>

\* GET /analytics/performance (part_000 695-744)
GetAnalytics ==
    /\ Handling("analytics")
    /\ last' = Call("analytics", 0)
    /\ resp' = Answer(200, "analytics")
    /\ UNCHANGED <<db, now, reqs, otherCollections>>

\* POST /:id/generate-link (part_000 749-793); the custom links themselves
\* are not kept
GenerateLink(a) ==
    /\ Handling("generate-link")
    /\ last' = Call("generate-link", 0)
    /\ resp' = IF a = BadId THEN Answer(500, "Error generating affiliate link")
               ELSE IF ~Exists(a) THEN NotFound
               ELSE Answer(200, "Affiliate link generated successfully")
    /\ db' = IF a # BadId /\ Exists(a)
             THEN [ db EXCEPT ![a] = save(@, @, preSave(@, now)) ]
             ELSE db
    /\ UNCHANGED <<now, reqs, otherCollections>>

BulkActions == {"activate", "deactivate", "update_tier", "update_commission", "delete"}
BulkData ==
    { [ tier |-> "gold", commissionRate |-> 100 ],
      [ tier |-> "diamond", commissionRate |-> 200 ] }

\* the update without the _id filter
UpdateMany_AllDocuments(coll, affiliateIds, field, value) ==
    [ a \in DOMAIN coll |-> ApplySet(coll[a], field :> value) ]

\* Affiliate.updateMany({ _id: { $in: affiliateIds } }, { $set: ... })
UpdateMany(coll, affiliateIds, field, value) ==
    [ a \in DOMAIN coll |->
        IF a \in affiliateIds THEN ApplySet(coll[a], field :> value) ELSE coll[a] ]

\* POST /bulk-action (part_000 798-856)
BulkAction(action, affiliateIds, data) ==
    /\ Handling("bulk-action")
    /\ last' = Call("bulk-action", 0)
    /\ resp' = IF action \notin {"activate", "deactivate", "update_tier",
                                 "update_commission"}
               THEN Answer(400, "Invalid bulk action")
               ELSE Answer(200, "Bulk action completed successfully")
    /\ db' = CASE action = "activate" ->
                    UpdateMany(db, affiliateIds, "status", "active")
               [] action = "deactivate" ->
                    UpdateMany(db, affiliateIds, "status", "inactive")
               [] action = "update_tier" ->
                    UpdateMany(db, affiliateIds, "tier", data.tier)
               [] action = "update_commission" ->
                    UpdateMany(db, affiliateIds, "commissionRate", data.commissionRate)
               [] OTHER -> db
    /\ UNCHANGED <<now, reqs, otherCollections>>

\* an approve or pay request that has reached its handler
HandleApprove(a, cid, admin) == Handling("approve") /\ PostApprove(a, cid, admin)
HandlePay(a, cid, method, reference) ==
    Handling("pay") /\ PostPay(a, cid, method, reference)

InitAdmin ==
    /\ db = [ a \in {1} |-> Populated(DefaultRate, 200, 200, {1}) ]
    /\ reqs = [ r \in {1} |-> Request("idle", "none", "anonymous", 0) ]
    /\ now = 1
    /\ resp = NoResp
    /\ last = NoCall
    /\ NoOtherCollections

NextAdmin ==
    \/ \E route \in AffiliateRoutes, requester \in Requesters : Arrive(route, requester)
    \/ RunMiddleware
    \/ ListAffiliates
    \/ \E a \in RequestAffIds : GetAffiliate(a)
    \/ \E name \in AffiliateNames, email \in AffiliateEmails : PostAffiliate(name, email)
    \/ \E a \in RequestAffIds, updates \in Updates : PutAffiliate(a, updates)
    \/ \E a \in RequestAffIds : DeleteAffiliate(a)
    \/ \E a \in RequestAffIds, cid \in CommissionIds, admin \in Admins :
          HandleApprove(a, cid, admin)
    \/ \E a \in RequestAffIds, cid \in CommissionIds,
          method \in PayMethods, reference \in PayRefs :
          HandlePay(a, cid, method, reference)
    \/ GetAnalytics
    \/ \E a \in RequestAffIds : GenerateLink(a)
    \/ \E action \in BulkActions, affiliateIds \in SUBSET AffIds, data \in BulkData :
          BulkAction(action, affiliateIds, data)

SpecAdmin == InitAdmin /\ [][NextAdmin]_vars

----------------------------------------------------------------------------
(* Bulk actions on two stored affiliates: affiliate 1 with referrals and   *)
(* commissions, affiliate 3 as it was created                              *)

InitBulk ==
    /\ db = [ a \in {1, 3} |-> IF a = 1 THEN Populated(DefaultRate, 200, 200, {1})
                                ELSE NewAffiliate(DefaultRate, 1) ]
    /\ reqs = [ r \in {1} |-> Request("idle", "none", "anonymous", 0) ]
    /\ now = 1
    /\ resp = NoResp
    /\ last = NoCall
    /\ NoOtherCollections

NextBulk ==
    \/ \E requester \in Requesters : Arrive("bulk-action", requester)
    \/ RunMiddleware
    \/ \E action \in BulkActions, affiliateIds \in SUBSET (AffIds \cup {3}),
          data \in BulkData :
          BulkAction(action, affiliateIds, data)

SpecBulk == InitBulk /\ [][NextBulk]_vars

----------------------------------------------------------------------------
(* Claims about the affiliates router *)

\* a handler of the router answers the request in flight
HandlerRuns == last = NoCall /\ last' # NoCall

\* C17: every affiliate endpoint is admin-only: a handler of the router
\* runs, and the affiliates collection changes, only for a request whose
\* requester passes the admin permission check.
C17_HandlersRunForAdminsOnly ==
    [][ /\ HandlerRuns => reqs[1].requester \in {"admin", "main_admin"}
        /\ db' # db => HandlerRuns ]_vars

\* an admin's delete request went through the middleware and removed the
\* affiliate
C17_Witness ==
    /\ last.op = "delete"
    /\ resp = Answer(200, "Affiliate deleted successfully")
    /\ reqs[1].requester = "admin"
    /\ DOMAIN db = {}

\* the status and the amount of every commission of a document
StatusAndAmount(doc) ==
    [ i \in 1..Len(doc.commissions) |->
        <<doc.commissions[i].status, doc.commissions[i].commissionAmount>> ]

\* C26 as stated: the status and amount of a commission and the counters
\* of stats change only through the lifecycle methods: the update endpoint
\* PUT /affiliates/:id, the bulk actions and generate-link leave every
\* commission's status and amount and every stats counter as they are, and
\* among the router's handlers only approve and pay change them.
C26_OnlyLifecycleChangesStats ==
    [][ \A a \in DOMAIN db \cap DOMAIN db' :
          \/ /\ db'[a].stats = db[a].stats
             /\ StatusAndAmount(db'[a]) = StatusAndAmount(db[a])
          \/ last'.op \in {"approve", "pay"} ]_vars

\* C29 as stated: every stored affiliate has a commissionRate between 0 and
\* 1 (0 to 100 percent) and a tier among bronze, silver, gold and platinum,
\* in every state reached by creation, PUT /affiliates/:id and the bulk
\* actions update_commission and update_tier.
C29_StoredRateAndTierAreValid ==
    \A a \in DOMAIN db :
        /\ db[a].commissionRate \in 0..MaxRate
        /\ db[a].tier \in TierEnum

\* C18 as stated: POST /affiliates with a name and an email that no stored
\* affiliate has, and no affiliateId or referralCode, stores one affiliate
\* with status active and a generated, non-empty affiliateId and
\* referralCode, and answers 201.
C18_CreateStoresActiveAffiliate ==
    [][ last'.op = "create"
          => \A name \in AffiliateNames \ {undefined},
                email \in AffiliateEmails \ {undefined} :
                (PostAffiliate(name, email) /\ ~AffiliateEmailTaken(email))
                  => /\ resp' = Answer(201, "Affiliate created successfully")
                     /\ \E a \in DOMAIN db' \ DOMAIN db :
                           /\ DOMAIN db' = DOMAIN db \cup {a}
                           /\ db'[a].status = "active"
                           /\ db'[a].affiliateId \notin {NoText, ""}
                           /\ db'[a].referralCode \notin {NoText, ""}
                     /\ \A a \in DOMAIN db : db'[a] = db[a] ]_vars

----------------------------------------------------------------------------
(* Settings: the logo upload of routes/settings (part_000, first file).    *)
(* models/Settings, models/File and services/storageService are not part   *)
(* of the sources; a Settings document keeps logoKey and logoUrl, a File   *)
(* record its owner, key, url and category, and the storage service the    *)
(* keys of the objects it holds.  A database or storage call can fail: the *)
(* request names the call that does.                                       *)

SettingsUsers == {1, 2}
\* req.file: the object multer has stored under a fresh name, or none
UploadedFiles == {"logos/a.png", "logos/b.png", "logos/c.png", undefined}
\* the call that fails during the request
Failures == {"none", "deleteFile", "findOneAndDelete", "fileRecord.save", "settings.save"}

\* new Settings({ userId })
NewSettings == [ logoKey |-> NoText, logoUrl |-> NoText ]

\* req.file.location || storageService.getFileUrl(key)
getFileUrl(key) == <<"url", key>>

\* new File({ userId, fileKey, fileUrl, category: 'logos', ... })
LogoRecord(userId, key) ==
    [ userId |-> userId, fileKey |-> key, fileUrl |-> getFileUrl(key),
      category |-> "logos" ]

\* File.findOneAndDelete({ fileKey }): the first record with the key goes
RECURSIVE RemoveFirst(_, _)
RemoveFirst(coll, key) ==
    IF coll = << >> THEN << >>
    ELSE IF Head(coll).fileKey = key THEN Tail(coll)
    ELSE <<Head(coll)>> \o RemoveFirst(Tail(coll), key)

\* multer names the stored object afresh: no object, record or settings
\* document carries the name yet
Fresh(key) ==
    /\ key \notin storage
    /\ \A i \in 1..Len(files) : files[i].fileKey # key
    /\ \A u \in DOMAIN settings : settings[u].logoKey # key

UploadCall(userId, key, fails) ==
    [ op |-> "upload-logo", user |-> userId, key |-> key, fails |-> fails ]

\* the old logo's object is deleted and its File record is left behind
AfterOldLogo_KeepsRecord(old, fails, store, coll) ==
    IF old = NoText \/ fails = "deleteFile"
    THEN [ storage |-> store, files |-> coll ]
    ELSE [ storage |-> store \ {old}, files |-> coll ]

\* the collections after the old logo was dealt with (lines 140-148): a
\* failure in the try block is logged and the request goes on
AfterOldLogo(old, fails, store, coll) ==
    IF old = NoText \/ fails = "deleteFile"
    THEN [ storage |-> store, files |-> coll ]
    ELSE IF fails = "findOneAndDelete"
    THEN [ storage |-> store \ {old}, files |-> coll ]
    ELSE [ storage |-> store \ {old}, files |-> RemoveFirst(coll, old) ]

\* the handler, had it removed the new File record when the settings save
\* fails
PostUploadLogo_RollsBack(userId, file, fails) ==
    LET doc == IF userId \in DOMAIN settings THEN settings[userId] ELSE NewSettings
        uploaded == storage \cup {file}
        cleaned == AfterOldLogo(doc.logoKey, fails, uploaded, files)
        recordSaved == fails # "fileRecord.save"
        settingsSaved == recordSaved /\ fails # "settings.save"
    IN /\ file = undefined \/ Fresh(file)
       /\ last' = UploadCall(userId, file, fails)
       /\ IF file = undefined
          THEN /\ resp' = Answer(400, "No file uploaded")
               /\ UNCHANGED <<files, settings, storage>>
          ELSE /\ resp' = IF settingsSaved THEN Answer(200, "Logo uploaded successfully") ELSE Answer(500, "Failed to upload logo")
               /\ storage' = cleaned.storage
               /\ files' = IF settingsSaved
                           THEN Append(cleaned.files, LogoRecord(userId, file))
                           ELSE cleaned.files
               /\ settings' = IF settingsSaved
                              THEN (userId :> [ doc EXCEPT !.logoUrl = getFileUrl(file),
                                                           !.logoKey = file ])
                                   @@ settings
                              ELSE settings
       /\ UNCHANGED <<now, affiliateVars, users, notifications>>

\* POST /settings/upload-logo (part_000 125-180); userId is req.user.id
PostUploadLogo(userId, file, fails) ==
    LET doc == IF userId \in DOMAIN settings THEN settings[userId] ELSE NewSettings
        uploaded == storage \cup {file}
        cleaned == AfterOldLogo(doc.logoKey, fails, uploaded, files)
        recordSaved == fails # "fileRecord.save"
        settingsSaved == recordSaved /\ fails # "settings.save"
    IN /\ file = undefined \/ Fresh(file)
       /\ last' = UploadCall(userId, file, fails)
       /\ IF file = undefined
          THEN /\ resp' = Answer(400, "No file uploaded")
               /\ UNCHANGED <<files, settings, storage>>
          ELSE /\ resp' = IF settingsSaved THEN Answer(200, "Logo uploaded successfully") ELSE Answer(500, "Failed to upload logo")
               /\ storage' = cleaned.storage
               /\ files' = IF recordSaved
                           THEN Append(cleaned.files, LogoRecord(userId, file))
                           ELSE cleaned.files
               /\ settings' = IF settingsSaved
                              THEN (userId :> [ doc EXCEPT !.logoUrl = getFileUrl(file),
                                                           !.logoKey = file ])
                                   @@ settings
                              ELSE settings
       /\ UNCHANGED <<now, affiliateVars, users, notifications>>

\* File.findOne(filter): the position of the first record among matches,
\* or 0
FindFile(matches) ==
    IF matches = {} THEN 0
    ELSE CHOOSE i \in matches : \A j \in matches : i <= j

\* the handler without the ownership filter: File.findOne({ fileKey })
DeleteFile_AnyOwner(userId, fileKey, fails) ==
    LET found == FindFile({ i \in 1..Len(files) : files[i].fileKey = fileKey })
    IN /\ last' = [ UploadCall(userId, fileKey, fails) EXCEPT !.op = "delete-file" ]
       /\ resp' = IF found = 0 THEN Answer(404, "File not found or access denied")
                  ELSE IF fails = "none" THEN Answer(200, "File deleted successfully")
                  ELSE Answer(500, "Failed to delete file")
       /\ storage' = IF found # 0 /\ fails # "deleteFile"
                     THEN storage \ {fileKey} ELSE storage
       /\ files' = IF found # 0 /\ fails = "none"
                   THEN SubSeq(files, 1, found - 1) \o SubSeq(files, found + 1, Len(files))
                   ELSE files
       /\ UNCHANGED <<now, affiliateVars, users, notifications, settings>>

\* DELETE /settings/delete-file/:fileKey (part_000 294-316); userId is
\* req.user.id, fails is the call that fails: storageService.deleteFile,
\* File.findByIdAndDelete, or none
DeleteFile(userId, fileKey, fails) ==
    LET found == FindFile({ i \in 1..Len(files) :
                              files[i].fileKey = fileKey /\ files[i].userId = userId })
    IN /\ last' = [ UploadCall(userId, fileKey, fails) EXCEPT !.op = "delete-file" ]
       /\ resp' = IF found = 0 THEN Answer(404, "File not found or access denied")
                  ELSE IF fails = "none" THEN Answer(200, "File deleted successfully")
                  ELSE Answer(500, "Failed to delete file")
       /\ storage' = IF found # 0 /\ fails # "deleteFile"
                     THEN storage \ {fileKey} ELSE storage
       /\ files' = IF found # 0 /\ fails = "none"
                   THEN SubSeq(files, 1, found - 1) \o SubSeq(files, found + 1, Len(files))
                   ELSE files
       /\ UNCHANGED <<now, affiliateVars, users, notifications, settings>>

InitSettings ==
    /\ settings = << >>
    /\ files = << >>
    /\ storage = {}
    /\ db = << >>
    /\ reqs = << >>
    /\ now = 1
    /\ resp = NoResp
    /\ last = UploadCall(0, undefined, "none")
    /\ users = << >>
    /\ notifications = << >>

NextSettings ==
    \/ \E userId \in SettingsUsers, file \in UploadedFiles, fails \in Failures :
          PostUploadLogo(userId, file, fails)
    \/ \E userId \in SettingsUsers, fileKey \in UploadedFiles \ {undefined},
          fails \in {"none", "deleteFile", "findByIdAndDelete"} :
          DeleteFile(userId, fileKey, fails)

SpecSettings == InitSettings /\ [][NextSettings]_vars

Owns(coll, userId, fileKey) ==
    \E i \in 1..Len(coll) : coll[i].fileKey = fileKey /\ coll[i].userId = userId

\* C22: delete-file removes the object and its File record only when the
\* requesting user owns a File record with the key; otherwise it answers
\* 404 and storage and the File records stay as they are.  When the storage
\* deletion fails the File records stay as they are.
C22_DeleteFileOnlyForOwner ==
    [][ last'.op = "delete-file"
          => /\ ~Owns(files, last'.user, last'.key)
                  => /\ resp' = Answer(404, "File not found or access denied")
                     /\ storage' = storage
                     /\ files' = files
             /\ (Owns(files, last'.user, last'.key) /\ last'.fails = "none")
                  => /\ resp' = Answer(200, "File deleted successfully")
                     /\ storage' = storage \ {last'.key}
                     /\ ~Owns(files', last'.user, last'.key)
                     /\ Len(files') = Len(files) - 1
                     /\ \A i \in 1..Len(files) :
                           files[i].fileKey # last'.key
                             => \E j \in 1..Len(files') : files'[j] = files[i]
             /\ last'.fails = "deleteFile"
                  => /\ files' = files
                     /\ storage' = storage
             /\ settings' = settings ]_vars

\* a user asked to delete the stored logo of another user and was answered
\* 404: the object and its record are still there
C22_Witness ==
    /\ last.op = "delete-file"
    /\ resp = Answer(404, "File not found or access denied")
    /\ last.key \in storage
    /\ \E i \in 1..Len(files) :
          files[i].fileKey = last.key /\ files[i].userId # last.user

\* C23: after a successful logo upload the user's settings name the new
\* file by logoKey and logoUrl and a File record with its key exists; when
\* the old logo was deleted its File record is gone, and when the old
\* logo's deletion fails the upload is answered with success all the same.
C23_SuccessfulUploadReplacesLogo ==
    [][ (last'.op = "upload-logo" /\ last'.key # undefined)
          => LET old == IF last'.user \in DOMAIN settings
                        THEN settings[last'.user].logoKey ELSE NoText
             IN /\ resp'.status = 200
                     => /\ settings'[last'.user].logoKey = last'.key
                        /\ settings'[last'.user].logoUrl = getFileUrl(last'.key)
                        /\ Owns(files', last'.user, last'.key)
                /\ (old # NoText /\ last'.fails = "none")
                     => /\ resp'.status = 200
                        /\ old \notin storage'
                        /\ \A i \in 1..Len(files') : files'[i].fileKey # old
                /\ last'.fails \in {"deleteFile", "findOneAndDelete"}
                     => resp' = Answer(200, "Logo uploaded successfully") ]_vars

\* a second logo was uploaded while the deletion of the first one's object
\* failed: the upload succeeded and the first logo's record is still stored
C23_Witness ==
    /\ last.op = "upload-logo"
    /\ last.fails = "deleteFile"
    /\ resp = Answer(200, "Logo uploaded successfully")
    /\ settings[last.user].logoKey = last.key
    /\ \E i \in 1..Len(files) :
          /\ files[i].userId = last.user
          /\ files[i].fileKey # last.key
          /\ files[i].fileKey \in storage

----------------------------------------------------------------------------
(* Paying twice *)

RECURSIVE SumNewlyPaid(_, _)
\* the sum of commissionAmount over the commissions paid in after and not
\* in before
SumNewlyPaid(before, after) ==
    IF before = << >> THEN 0
    ELSE (IF Head(before).status # "paid" /\ Head(after).status = "paid"
          THEN Head(after).commissionAmount ELSE 0)
         + SumNewlyPaid(Tail(before), Tail(after))

\* C20: payCommission is idempotent per commission when calls run one after
\* another: a pay call moves the amount of a commission from
\* pendingCommission to totalCommissionPaid only when it turns the
\* commission paid, a paid commission stays as it is, and paying a paid
\* commission again changes no counter and no commission field.
C20_PayCountsEachCommissionOnce ==
    [][ last'.op = "pay"
          => \A a \in DOMAIN db :
                LET d == db[a]
                    e == db'[a]
                    moved == SumNewlyPaid(d.commissions, e.commissions)
                IN /\ Len(e.commissions) = Len(d.commissions)
                   /\ \A i \in 1..Len(d.commissions) :
                         d.commissions[i].status = "paid"
                           => e.commissions[i] = d.commissions[i]
                   /\ e.stats.totalCommissionPaid = d.stats.totalCommissionPaid + moved
                   /\ e.stats.pendingCommission = d.stats.pendingCommission - moved
                   /\ (last'.id \in 1..Len(d.commissions)
                         /\ d.commissions[last'.id].status = "paid")
                        => e.stats = d.stats /\ e.commissions = d.commissions ]_vars

\* a commission paid at time 1 was paid again at time 2: it keeps its
\* paidAt, and the counter holds its amount once
C20_Witness ==
    /\ last.op = "pay"
    /\ last.id \in 1..Len(db[1].commissions)
    /\ db[1].commissions[last.id].status = "paid"
    /\ db[1].commissions[last.id].paidAt = 1
    /\ db[1].lastActivityAt = 2
    /\ db[1].stats.totalCommissionPaid = SumPaid(db[1].commissions)
    /\ db[1].stats.totalCommissionPaid # 0

----------------------------------------------------------------------------
(* The counters of stats under sequential calls *)

\* C27 as stated: in every state reached by sequential addReferral,
\* recordConversion, approveCommission and payCommission calls,
\* stats.pendingCommission equals totalCommissionEarned minus
\* totalCommissionPaid (the pendingPayout virtual) and is not negative.
C27_PendingIsPayoutAndNotNegative ==
    \A a \in DOMAIN db :
        /\ db[a].stats.pendingCommission = pendingPayout(db[a])
        /\ db[a].stats.pendingCommission >= 0

\* C28 as stated: in every state reached by addReferral and
\* recordConversion calls, stats.successfulReferrals is at most
\* stats.totalReferrals and is the number of referrals with status
\* converted, also when recordConversion is called again for a referral or
\* with the id of no referral.
C28_SuccessfulReferralsCountsConverted ==
    \A a \in DOMAIN db :
        /\ db[a].stats.successfulReferrals <= db[a].stats.totalReferrals
        /\ db[a].stats.successfulReferrals =
              Cardinality({ i \in 1..Len(db[a].referrals) :
                              db[a].referrals[i].status = "converted" })

====
